---- MODULE Spec2Model ----
(***************************************************************************)
(* Model of the PDF offer assembly pipeline of pdf_generator.py:           *)
(*   - the offer-number allocator (_get_next_offer_number) over the        *)
(*     SettingsStore key 'offer_number_suffix',                            *)
(*   - generate_offer_pdf: cover, cover letter, ordered sections, build,   *)
(*     plain-text fallback,                                                *)
(*   - the appendix merge at the end of generate_offer_pdf.                *)
(***************************************************************************)
EXTENDS Integers, Sequences, FiniteSets, TLC

(***************************************************************************)
(* Bounds of the model.                                                    *)
(***************************************************************************)
\* number of callers of the offer-number allocator
NumCallers == 3

\* longest sections_to_include list drawn freely
MaxSel == 3

\* most render faults (cover, letter, sections) injected into one call
MaxFaults == 2

\* most pages the sections of one offer flow into
MaxSectionPages == 2

\* most populated component slots in project_details
MaxSelected == 2

(***************************************************************************)
(* Values.                                                                 *)
(***************************************************************************)
\* a setting value: Python None (or no row), an integer, or a value that
\* int(str(.)) cannot parse
NoValue == [kind |-> "none", val |-> 0]

IntValue(n) == [kind |-> "int", val |-> n]

Garbage == [kind |-> "garbage", val |-> 0]

\* default of load_admin_setting_func('offer_number_suffix', 1000)
DefaultSuffix == 1000

Callers == 1..NumCallers

\* outcomes of a SettingsStore.load call: it returns, or it raises
LoadOutcomes == {"ok", "raise"}

\* outcomes of a SettingsStore.save call: it persists and returns True, it
\* persists nothing and returns False, or it raises (nothing persisted)
SaveOutcomes == {"saved", "not_saved", "raise"}

\* f"AN{year}-{next_suffix:04d}", the year held constant
SeqNumber(suffix) == [kind |-> "seq", suffix |-> suffix]

\* f"AN{now:%Y%m%d-%H%M%S}", the number of the except branch
TimestampNumber == [kind |-> "timestamp", suffix |-> 0]

\* no number (the call has not allocated one)
NoNumber == [kind |-> "none", suffix |-> 0]

VARIABLES
  stored,    \* SettingsStore: the value under 'offer_number_suffix'
  rpc,       \* allocator call of each caller: "idle", "load", "save", "done"
  rcur,      \* current_suffix of each caller's allocator call
  rnum,      \* the offer number each caller's allocator call returned
  rsaved,    \* whether each caller's save call persisted its value
  rbefore,   \* pairs <<a, b>>: a's call had returned when b's call started
  raced      \* some caller loaded while another was between its load and save

avars == <<rpc, rcur, rnum, rsaved, rbefore, raced>>

VARIABLES
  pypdf_available,             \* _PYPDF_AVAILABLE, fixed at import
  pc,                          \* position of the generate_offer_pdf call
  sections_to_include,         \* input: the list of section identifiers
  project_is_dict,             \* input: isinstance(project_data, dict)
  include_all_documents_opt,   \* inclusion_options["include_all_documents"]
  pv_details_pdf,              \* project_data["project_details"]
  offer_number_final,          \* the number _get_next_offer_number returned
  story,                       \* the flowables appended so far
  sec_idx,                     \* index into ordered_section_definitions_pdf
  current_section_counter_pdf, \* the heading number of the next section
  raised_sections,             \* sections whose renderer raised
  faults,                      \* render faults injected into this call
  main_offer_buffer,           \* io.BytesIO of the offer: "none", "open", "closed"
  main_pdf_bytes,              \* bytes of the built offer
  product_ids_for_datasheets,  \* the deduplicated ids, in iteration order
  paths_to_append,             \* appendix paths collected
  datasheet_count,             \* how many of them are product datasheets
  pdf_writer,                  \* pages added to the PdfWriter
  path_idx,                    \* index of the next path to append
  unreadable,                  \* indices of paths whose append raised
  final_buffer,                \* io.BytesIO of the merge: "none", "open", "closed"
  result                       \* what the call returned

pvars == <<pypdf_available, pc, sections_to_include, project_is_dict,
           include_all_documents_opt, pv_details_pdf, offer_number_final,
           story, sec_idx, current_section_counter_pdf,
           raised_sections, faults, main_offer_buffer, main_pdf_bytes,
           product_ids_for_datasheets, paths_to_append, datasheet_count,
           pdf_writer, path_idx, unreadable, final_buffer, result>>

VARIABLES
  cpc,                       \* position of doc.build: "idle", "flow", "save_loop", "super_save", "saved", "raised"
  include_company_logo_opt,  \* inclusion_options["include_company_logo"]
  company_logo_base64,       \* the logo data handed to generate_offer_pdf
  pdf_footer_text,           \* company_info["pdf_footer_text"]
  canv,                      \* __dict__ of the PageNumCanvas
  code_lists,                \* the _code list objects, by identity: one per started page
  saved_page_states,         \* PageNumCanvas._saved_page_states
  doc_pages,                 \* the page streams added to the PDF document
  state_idx,                 \* loop index of PageNumCanvas.save
  flowed_pages,              \* pages doc.build has ended
  markers_drawn,             \* chapter-title markers drawn so far
  events                     \* showPage calls and decorator invocations, in order

cvars == <<cpc, include_company_logo_opt, company_logo_base64, pdf_footer_text,
           canv, code_lists, saved_page_states, doc_pages, state_idx,
           flowed_pages, markers_drawn, events>>

VARIABLES
  vpc,                           \* position in the Visualizations branch: "idle", "charts", "done"
  selected_charts_for_pdf_opt,   \* inclusion_options["selected_charts_for_pdf"]
  current_analysis_results_pdf,  \* the chart entries of the analysis results
  chart_idx,                     \* catalog entries the loop has passed
  charts_added_count,            \* the counter of rendered charts
  chart_story                    \* what the branch has appended to the story

zvars == <<vpc, selected_charts_for_pdf_opt, current_analysis_results_pdf,
           chart_idx, charts_added_count, chart_story>>

VARIABLES
  called,    \* the helper function that was called; "none" before the call
  args,      \* the arguments of the call
  returned   \* what the call returned

hvars == <<called, args, returned>>

VARIABLES
  stored_at_call,  \* the value under 'offer_number_suffix' when the call began
  ended_calls      \* the calls of generate_offer_pdf that have ended, in order

nvars == <<stored_at_call, ended_calls>>

VARIABLES
  upc,                                  \* position of the script run of render_pdf_ui: "idle", "form", "check", "generating", "finally", "download"
  rerun,                                \* st.rerun() has asked for the run that starts next
  pdf_generating_lock_v1,               \* st.session_state.pdf_generating_lock_v1: "absent", "True", "False"
  generated_pdf_bytes_for_download_v1,  \* the session entry of that name
  submit_button_disabled,               \* how the submit button was last drawn: "none", "True", "False"
  submitted_generate_pdf,               \* the form was submitted for this run
  submits,                              \* submits so far
  lock_read,                            \* the lock as line 262 read it in each submitted run
  handed                                \* the generation numbers of the bytes given to st.download_button

uvars == <<upc, rerun, pdf_generating_lock_v1, generated_pdf_bytes_for_download_v1,
           submit_button_disabled, submitted_generate_pdf, submits, lock_read, handed>>

xvars == <<cvars, zvars, hvars, nvars, uvars>>

vars == <<stored, avars, pvars, xvars>>

(***************************************************************************)
(* _get_next_offer_number, line by line.                                   *)
(***************************************************************************)
\* load_admin_setting_func(key, default): the stored value, or the default
load_admin_setting(st, default) == IF st = NoValue THEN IntValue(default) ELSE st

\* int(str(current_suffix_obj)) raises ValueError on a non-numeric value
CanParseSuffix(obj) == obj # Garbage

\* int(str(obj)) if obj is not None else 1000
ParseSuffix(obj) == IF obj = NoValue THEN DefaultSuffix ELSE obj.val

\* a store that persists the value after the one it was handed
save_admin_setting_skipping(st, value, outcome) ==
  IF outcome = "saved" THEN IntValue(value + 1) ELSE st

\* save_admin_setting_func(key, value): the store after the call
save_admin_setting(st, value, outcome) == IF outcome = "saved" THEN IntValue(value) ELSE st

\* next_suffix computed from the store as it is when the caller saves
next_suffix_reread(c) == ParseSuffix(load_admin_setting(stored, DefaultSuffix)) + 1

\* next_suffix = current_suffix + 1
next_suffix(c) == rcur[c] + 1

\* a caller enters _get_next_offer_number
NumStart(c) ==
  /\ rpc[c] = "idle"
  /\ rpc' = [rpc EXCEPT ![c] = "load"]
  /\ rbefore' = rbefore \cup {<<a, c>> : a \in {d \in Callers : rpc[d] = "done"}}
  /\ UNCHANGED <<stored, rcur, rnum, rsaved, raced, pvars, xvars>>

\* the same, for callers that never overlap
NumStartSeq(c) ==
  /\ \A d \in Callers : rpc[d] \in {"idle", "done"}
  /\ NumStart(c)

\* current_suffix_obj = load(...); current_suffix = int(str(...))
NumLoad(c) ==
  /\ rpc[c] = "load"
  /\ \E lo \in LoadOutcomes :
       LET obj == load_admin_setting(stored, DefaultSuffix) IN
       IF lo = "raise" \/ ~CanParseSuffix(obj)
       THEN /\ rpc' = [rpc EXCEPT ![c] = "done"]
            /\ rnum' = [rnum EXCEPT ![c] = TimestampNumber]
            /\ UNCHANGED <<rcur, raced>>
       ELSE /\ rpc' = [rpc EXCEPT ![c] = "save"]
            /\ rcur' = [rcur EXCEPT ![c] = ParseSuffix(obj)]
            /\ raced' = (raced \/ \E d \in Callers \ {c} : rpc[d] = "save")
            /\ UNCHANGED rnum
  /\ UNCHANGED <<stored, rsaved, rbefore, pvars, xvars>>

\* save(..., next_suffix); return f"AN{year}-{next_suffix:04d}"
NumSave(c) ==
  /\ rpc[c] = "save"
  /\ \E so \in SaveOutcomes :
       /\ stored' = save_admin_setting(stored, next_suffix(c), so)
       /\ rnum' = [rnum EXCEPT ![c] =
                     IF so = "raise" THEN TimestampNumber ELSE SeqNumber(next_suffix(c))]
       /\ rsaved' = [rsaved EXCEPT ![c] = (so = "saved")]
  /\ rpc' = [rpc EXCEPT ![c] = "done"]
  /\ UNCHANGED <<rcur, rbefore, raced, pvars, xvars>>

InitCallers ==
  /\ rpc = [c \in Callers |-> "idle"]
  /\ rcur = [c \in Callers |-> 0]
  /\ rnum = [c \in Callers |-> NoNumber]
  /\ rsaved = [c \in Callers |-> FALSE]
  /\ rbefore = {}
  /\ raced = FALSE

(***************************************************************************)
(* generate_offer_pdf: inputs and values.                                  *)
(***************************************************************************)
\* the section keys of ordered_section_definitions_pdf, in its order
SectionKeys ==
  <<"ProjectOverview", "TechnicalComponents", "CostDetails", "Economics",
    "SimulationDetails", "CO2Savings", "Visualizations", "FutureAspects">>

KnownSections == {SectionKeys[i] : i \in DOMAIN SectionKeys}

\* an identifier no section definition carries
UnknownSection == "Unknown"

\* the identifiers short selections are drawn from: the first, a middle
\* and the last section, and the unknown identifier
SectionUniverse ==
  {SectionKeys[1], SectionKeys[3], SectionKeys[Len(SectionKeys)], UnknownSection}

\* the list pdf_ui passes when the user changes nothing
DefaultSelection == SectionKeys

Reverse(s) == [i \in DOMAIN s |-> s[Len(s) + 1 - i]]

SeqsUpTo(S, n) == UNION {[1..k -> S] : k \in 0..n}

\* sections_to_include: every short list over SectionUniverse (any order,
\* duplicates, unknown ids), the full list and the full list backwards.  None behaves as the
\* empty list (sections_to_include or [])
Selections ==
  SeqsUpTo(SectionUniverse, MaxSel) \cup {DefaultSelection, Reverse(DefaultSelection)}

\* set(sections_to_include or [])
active_sections_set_pdf(sel) == {sel[i] : i \in DOMAIN sel}

\* a flowable of the story
Flowable(kind, sec, num) == [kind |-> kind, sec |-> sec, num |-> num]

PageBreak == Flowable("PageBreak", "", 0)

\* SetCurrentChapterTitle(title)
ChapterMarker(sec) == Flowable("SetCurrentChapterTitle", sec, 0)

\* Paragraph(f"{n}. {title}", SectionTitle)
Heading(sec, n) == Flowable("SectionTitle", sec, n)

\* the whole body of a section, of the cover, of the letter
Content(sec) == Flowable("Content", sec, 0)

\* the flowables a body appended before it raised
PartialContent(sec) == Flowable("PartialContent", sec, 0)

\* Paragraph(f"Fehler ...: {e}")
ErrorNote(sec) == Flowable("ErrorNote", sec, 0)

CoverKey == "Deckblatt"

LetterKey == "Anschreiben"

\* outcomes of the cover block: it completes, it raises before
\* customer_address_block_pdf is bound, or it raises after
CoverOutcomes == {"ok", "raise_before_address", "raise_after_address"}

\* outcomes of the letter block and of a section body: it completes, it
\* raises before appending anything, or it raises after appending something
RenderOutcomes == {"ok", "raise", "raise_late"}

IsFault(outcome) == outcome # "ok"

\* lines 568-609
cover_flowables(outcome) ==
  IF outcome = "ok" THEN <<Content(CoverKey), PageBreak>>
  ELSE IF outcome = "raise_before_address" THEN <<ErrorNote(CoverKey), PageBreak>>
  ELSE <<PartialContent(CoverKey), ErrorNote(CoverKey), PageBreak>>

\* customer_address_block_pdf is bound once line 600 has run
AddressBlockBound(st) ==
  \E i \in DOMAIN st : st[i] \in {Content(CoverKey), PartialContent(CoverKey)}

\* lines 612-639: the marker and the sender address precede anything that
\* can raise
letter_flowables(outcome) ==
  IF outcome = "ok" THEN <<ChapterMarker(LetterKey), Content(LetterKey), PageBreak>>
  ELSE <<ChapterMarker(LetterKey), PartialContent(LetterKey), ErrorNote(LetterKey), PageBreak>>

\* a section whose except branch appends nothing
section_flowables_no_note(sec, n, outcome) ==
  IF outcome = "ok" THEN <<ChapterMarker(sec), Heading(sec, n), Content(sec)>>
  ELSE <<ChapterMarker(sec), Heading(sec, n)>>

\* lines 667-832: marker, numbered heading, body; on an exception the error
\* note follows whatever the body had appended (spacers are left out)
section_flowables(sec, n, outcome) ==
  IF outcome = "ok" THEN <<ChapterMarker(sec), Heading(sec, n), Content(sec)>>
  ELSE IF outcome = "raise" THEN <<ChapterMarker(sec), Heading(sec, n), ErrorNote(sec)>>
  ELSE <<ChapterMarker(sec), Heading(sec, n), PartialContent(sec), ErrorNote(sec)>>

\* a counter that advances on every section definition
counter_after_every_definition(included, n) == n + 1

\* current_section_counter_pdf += 1, on both branches of an included section
counter_after(included, n) == IF included THEN n + 1 ELSE n

\* a page of a document
Page(doc, no) == [doc |-> doc, no |-> no]

\* bytes: what produced them and the pages they hold
Bytes(kind, origin, pages) == [kind |-> kind, origin |-> origin, pages |-> pages]

\* None
NoBytes == Bytes("none", "", <<>>)

\* main_offer_buffer.getvalue() after doc.build: n pages written by ReportLab
BaseDocument(n) == Bytes("pdf", "reportlab", [i \in 1..n |-> Page("offer", i)])

\* final_buffer.getvalue() after pdf_writer.write
MergedDocument(pages) == Bytes("pdf", "pypdf", pages)

\* the return value of _create_plaintext_pdf_fallback
PlainTextOffer ==
  [kind |-> "plaintext", origin |-> "fallback", pages |-> <<>>,
   offer_number |-> "FALLBACK_NR"]

\* an exception that leaves generate_offer_pdf, and the call that raised it
Raised(site) == Bytes("exception", site, <<>>)

\* outcomes of a call that returns or raises
CallOutcomes == {"ok", "raise"}

(***************************************************************************)
(* Appendix merge: the lookups and the files on disk.                      *)
(***************************************************************************)
\* a slot of project_details that holds no product (None, 0, "")
NoId == 0

\* the three main component slots
MainSlots == {"selected_module_id", "selected_inverter_id", "selected_storage_id"}

\* the optional component slots, in the order line 864 walks them
OptionalSlots ==
  <<"selected_wallbox_id", "selected_ems_id", "selected_optimizer_id",
    "selected_carport_id", "selected_notstrom_id", "selected_tierabwehr_id">>

AllSlots == MainSlots \cup {OptionalSlots[i] : i \in DOMAIN OptionalSlots}

\* get_product_by_id_func: products 1 and 2 have a datasheet on disk, the
\* datasheet of 3 is recorded but its file is gone, 4 records none, 5 is
\* not in the database
ProductDb ==
  [id \in 1..5 |->
     CASE id = 1 -> [found |-> TRUE, datasheet_link_db_path |-> "ds1.pdf"]
       [] id = 2 -> [found |-> TRUE, datasheet_link_db_path |-> "ds2.pdf"]
       [] id = 3 -> [found |-> TRUE, datasheet_link_db_path |-> "ds3.pdf"]
       [] id = 4 -> [found |-> TRUE, datasheet_link_db_path |-> ""]
       [] OTHER  -> [found |-> FALSE, datasheet_link_db_path |-> ""]]

ProductIds == DOMAIN ProductDb

\* os.path.exists
ExistingFiles == {"ds1.pdf", "ds2.pdf", "doc1.pdf", "doc2.pdf"}

\* db_list_company_documents_func(company, None): company 1 has four
\* documents (the file of the third is gone, the fourth records no path),
\* any other company has none
company_documents(company) ==
  IF company = 1
  THEN <<[id |-> 1, relative_db_path |-> "doc1.pdf"],
         [id |-> 2, relative_db_path |-> "doc2.pdf"],
         [id |-> 3, relative_db_path |-> "doc3.pdf"],
         [id |-> 4, relative_db_path |-> ""]>>
  ELSE <<>>

\* active_company_id: None, a company with documents, a company without
CompanyIds == {"None", "1", "2"}

CompanyNumber(c) == IF c = "1" THEN 1 ELSE 2

\* the pages PdfReader(path).pages yields
file_pages(path) ==
  IF path \in {"ds1.pdf", "doc1.pdf"}
  THEN <<Page(path, 1), Page(path, 2)>>
  ELSE <<Page(path, 1)>>

\* project_details: no slot populated, no flag set (also what
\* current_project_data_pdf.get("project_details", {}) is for a
\* project_data that is no dict)
EmptyDetails ==
  [ids |-> [k \in AllSlots |-> NoId],
   include_storage |-> FALSE,
   include_additional_components |-> FALSE]

\* the slot assignment that puts f on the slots S and nothing elsewhere
Populate(S, f) == [k \in AllSlots |-> IF k \in S THEN f[k] ELSE NoId]

\* every project_details with at most n populated slots
PvDetails(n) ==
  {[ids |-> ids, include_storage |-> st, include_additional_components |-> ad] :
     ids \in UNION {{Populate(S, f) : f \in [S -> ProductIds]} :
                      S \in {T \in SUBSET AllSlots : Cardinality(T) <= n}},
     st \in BOOLEAN, ad \in BOOLEAN}

RECURSIVE SelectSeq2(_, _)
\* filter(None, ids)
SelectSeq2(ids, i) ==
  IF i > Len(ids) THEN <<>>
  ELSE (IF ids[i] # NoId THEN <<ids[i]>> ELSE <<>>) \o SelectSeq2(ids, i + 1)

\* the id list that reads every slot, whatever the flags say
product_ids_ignoring_flags(pv) ==
  SelectSeq2(<<pv.ids["selected_module_id"], pv.ids["selected_inverter_id"],
               pv.ids["selected_storage_id"]>>
             \o [i \in DOMAIN OptionalSlots |-> pv.ids[OptionalSlots[i]]], 1)

\* lines 858-866: product_ids_for_datasheets before deduplication
product_ids(pv) ==
  SelectSeq2(<<pv.ids["selected_module_id"], pv.ids["selected_inverter_id"],
               IF pv.include_storage THEN pv.ids["selected_storage_id"] ELSE NoId>>, 1)
  \o (IF pv.include_additional_components
      THEN SelectSeq2([i \in DOMAIN OptionalSlots |-> pv.ids[OptionalSlots[i]]], 1)
      ELSE <<>>)

Range(s) == {s[i] : i \in DOMAIN s}

\* list(set(ids)): the distinct ids in any order
Orderings(ids) ==
  {s \in [1..Cardinality(Range(ids)) -> Range(ids)] : Range(s) = Range(ids)}

\* lines 874-877 for one product
has_datasheet(id) ==
  /\ ProductDb[id].found
  /\ ProductDb[id].datasheet_link_db_path # ""
  /\ ProductDb[id].datasheet_link_db_path \in ExistingFiles

RECURSIVE datasheet_paths(_, _)
\* lines 872-877: the paths of the ids, in iteration order
datasheet_paths(ids, i) ==
  IF i > Len(ids) THEN <<>>
  ELSE (IF has_datasheet(ids[i]) THEN <<ProductDb[ids[i]].datasheet_link_db_path>> ELSE <<>>)
       \o datasheet_paths(ids, i + 1)

RECURSIVE document_paths(_, _, _)
\* lines 882-887: the paths of the wanted documents, in listing order
document_paths(docs, wanted, i) ==
  IF i > Len(docs) THEN <<>>
  ELSE (IF /\ docs[i].id \in wanted
           /\ docs[i].relative_db_path # ""
           /\ docs[i].relative_db_path \in ExistingFiles
        THEN <<docs[i].relative_db_path>> ELSE <<>>)
       \o document_paths(docs, wanted, i + 1)

\* company_document_ids_to_include: up to two of the four documents (with
\* no id wanted the company and its listing are never consulted)
DocumentSelections == {S \in SUBSET {1, 2, 3, 4} : Cardinality(S) <= 2}

\* a merge that runs whatever the option and the capability are
merge_always(include_all, pypdf) == TRUE

\* line 853: the merge runs only if both hold
merge_enabled(include_all, pypdf) == include_all /\ pypdf

\* pages put in front of what the writer holds
add_pages_in_front(writer, pages) == pages \o writer

\* for page in reader.pages: pdf_writer.add_page(page)
add_pages(writer, pages) == writer \o pages

\* outcomes of appending one file: all its pages are added, PdfReader
\* raises on the file, or add_page raises after the first page
AppendOutcomes == {"ok", "unreadable", "breaks_off"}

(***************************************************************************)
(* generate_offer_pdf, step by step.                                       *)
(***************************************************************************)
inputvars == <<pypdf_available, sections_to_include, project_is_dict>>

storyvars == <<story, sec_idx, current_section_counter_pdf, raised_sections, faults>>

mergevars == <<include_all_documents_opt, pv_details_pdf, product_ids_for_datasheets,
               paths_to_append, datasheet_count, pdf_writer, path_idx, unreadable,
               final_buffer>>

\* the caller invokes generate_offer_pdf
Call(selections) ==
  /\ pc = "idle"
  /\ \E sel \in selections, is_dict \in BOOLEAN :
       /\ sections_to_include' = sel
       /\ project_is_dict' = is_dict
  /\ pc' = "settings"
  /\ UNCHANGED <<stored, avars, xvars, pypdf_available, offer_number_final,
                 storyvars, main_offer_buffer, main_pdf_bytes, mergevars, result>>

\* lines 542-546: the design settings are loaded outside any try block
LoadDesignSettings ==
  /\ pc = "settings"
  /\ \E lo \in CallOutcomes :
       IF lo = "raise"
       THEN /\ pc' = "raised"
            /\ result' = Raised("load_admin_setting_func")
            /\ UNCHANGED main_offer_buffer
       ELSE /\ pc' = "number"
            /\ main_offer_buffer' = "open"
            /\ UNCHANGED result
  /\ UNCHANGED <<stored, avars, xvars, inputvars, offer_number_final,
                 storyvars, main_pdf_bytes, mergevars>>

\* line 547: _get_next_offer_number, run without interruption
AllocOfferNumber ==
  /\ pc = "number"
  /\ \E lo \in LoadOutcomes, so \in SaveOutcomes :
       LET obj == load_admin_setting(stored, DefaultSuffix) IN
       IF lo = "raise" \/ ~CanParseSuffix(obj)
       THEN /\ offer_number_final' = TimestampNumber
            /\ UNCHANGED stored
       ELSE /\ stored' = save_admin_setting(stored, ParseSuffix(obj) + 1, so)
            /\ offer_number_final' =
                 IF so = "raise" THEN TimestampNumber ELSE SeqNumber(ParseSuffix(obj) + 1)
  /\ pc' = "options"
  /\ UNCHANGED <<avars, xvars, inputvars, storyvars, main_offer_buffer, main_pdf_bytes,
                 mergevars, result>>

\* lines 549-565: the options are read and the document template is made,
\* outside any try block; inclusion_options.get and company_info.get exist
\* only on a dict, and the title template of line 555 is formatted with the
\* field offer_number alone
ConfigureDocument ==
  /\ pc = "options"
  /\ \E co \in CallOutcomes :
       IF co = "raise"
       THEN pc' = "raised" /\ result' = Raised("SimpleDocTemplate")
       ELSE pc' = "cover" /\ UNCHANGED result
  /\ UNCHANGED <<stored, avars, xvars, inputvars, offer_number_final,
                 storyvars, main_offer_buffer, main_pdf_bytes, mergevars>>

\* lines 568-609: the cover page
BuildCover(max_faults) ==
  /\ pc = "cover"
  /\ \E o \in CoverOutcomes :
       /\ IsFault(o) => faults < max_faults
       /\ story' = story \o cover_flowables(o)
       /\ faults' = IF IsFault(o) THEN faults + 1 ELSE faults
  /\ pc' = "letter"
  /\ UNCHANGED <<stored, avars, xvars, inputvars, offer_number_final,
                 sec_idx, current_section_counter_pdf, raised_sections,
                 main_offer_buffer, main_pdf_bytes, mergevars, result>>

\* lines 612-664: the cover letter; it raises NameError at line 617 when the
\* cover never bound customer_address_block_pdf
BuildLetter(max_faults) ==
  /\ pc = "letter"
  /\ \E o \in {"ok", "raise_late"} :
       /\ ~AddressBlockBound(story) => IsFault(o)
       /\ (IsFault(o) /\ AddressBlockBound(story)) => faults < max_faults
       /\ story' = story \o letter_flowables(o)
       /\ faults' = IF IsFault(o) /\ AddressBlockBound(story) THEN faults + 1 ELSE faults
  /\ pc' = "sections"
  /\ sec_idx' = 1
  /\ current_section_counter_pdf' = 1
  /\ UNCHANGED <<stored, avars, xvars, inputvars, offer_number_final,
                 raised_sections, main_offer_buffer, main_pdf_bytes, mergevars, result>>

\* lines 665-832: one iteration of the loop over the section definitions
RenderSection(max_faults) ==
  /\ pc = "sections"
  /\ sec_idx <= Len(SectionKeys)
  /\ LET sec == SectionKeys[sec_idx]
         included == sec \in active_sections_set_pdf(sections_to_include)
     IN \E o \in RenderOutcomes :
          /\ IsFault(o) => (included /\ faults < max_faults)
          /\ story' = IF included
                      THEN story \o section_flowables(sec, current_section_counter_pdf, o)
                      ELSE story
          /\ current_section_counter_pdf' = counter_after(included, current_section_counter_pdf)
          /\ raised_sections' = IF IsFault(o) THEN raised_sections \cup {sec} ELSE raised_sections
          /\ faults' = IF IsFault(o) THEN faults + 1 ELSE faults
  /\ sec_idx' = sec_idx + 1
  /\ UNCHANGED <<stored, avars, xvars, inputvars, offer_number_final, pc,
                 main_offer_buffer, main_pdf_bytes, mergevars, result>>

HasSections(st) == \E i \in DOMAIN st : st[i].kind = "SectionTitle"

\* lines 834-851: doc.build consumes the story (and the record of its
\* faults ends with it); on an exception the plain-text fallback is called
\* with the caller's project_data, whose .get (line 918) exists only on a
\* dict
BuildDocument ==
  /\ pc = "sections"
  /\ sec_idx > Len(SectionKeys)
  /\ \E bo \in CallOutcomes, sp \in 0..MaxSectionPages :
       /\ (sp = 0) <=> ~HasSections(story)
       /\ IF bo = "ok"
          THEN /\ main_pdf_bytes' = BaseDocument(2 + sp)
               /\ pc' = "merge"
               /\ UNCHANGED result
          ELSE /\ main_pdf_bytes' = NoBytes
               /\ IF project_is_dict
                  THEN pc' = "returned" /\ result' = PlainTextOffer
                  ELSE pc' = "raised" /\ result' = Raised("_create_plaintext_pdf_fallback")
  /\ story' = <<>>
  /\ raised_sections' = {}
  /\ faults' = 0
  /\ main_offer_buffer' = "closed"
  /\ UNCHANGED <<stored, avars, xvars, inputvars, offer_number_final,
                 sec_idx, current_section_counter_pdf, mergevars>>

\* lines 851-854: the gate of the appendix merge (a built document is never
\* empty, so line 851 does not return)
MergeGate ==
  /\ pc = "merge"
  /\ \E include_all \in BOOLEAN :
       /\ include_all_documents_opt' = include_all
       /\ IF merge_enabled(include_all, pypdf_available)
          THEN pc' = "datasheets" /\ UNCHANGED result
          ELSE pc' = "returned" /\ result' = main_pdf_bytes
  /\ UNCHANGED <<stored, avars, xvars, inputvars, offer_number_final,
                 storyvars, main_offer_buffer, main_pdf_bytes, pv_details_pdf,
                 product_ids_for_datasheets, paths_to_append, datasheet_count,
                 pdf_writer, path_idx, unreadable, final_buffer>>

\* lines 856-877: the product ids are gathered and deduplicated, each is
\* looked up (outside any try block) and the datasheet paths are collected
CollectDatasheets(details) ==
  /\ pc = "datasheets"
  /\ \E pv \in (IF project_is_dict THEN details ELSE {EmptyDetails}) :
       \E ids \in Orderings(product_ids(pv)), lookup \in CallOutcomes :
         /\ pv_details_pdf' = pv
         /\ product_ids_for_datasheets' = ids
         /\ IF lookup = "raise" /\ ids # <<>>
            THEN /\ pc' = "raised"
                 /\ result' = Raised("get_product_by_id_func")
                 /\ UNCHANGED <<paths_to_append, datasheet_count>>
            ELSE /\ pc' = "documents"
                 /\ paths_to_append' = datasheet_paths(ids, 1)
                 /\ datasheet_count' = Len(datasheet_paths(ids, 1))
                 /\ UNCHANGED result
  /\ UNCHANGED <<stored, avars, xvars, inputvars, offer_number_final,
                 storyvars, main_offer_buffer, main_pdf_bytes, include_all_documents_opt,
                 pdf_writer, path_idx, unreadable, final_buffer>>

\* lines 880-889: the company documents are listed (outside any try block)
\* and the wanted ones collected; with no path at all the base is returned.
\* project_details and the id list are not read again and are dropped
CollectCompanyDocs(selections) ==
  /\ pc = "documents"
  /\ \E wanted \in selections :
       \E company \in (IF wanted = {} THEN {"None"} ELSE CompanyIds) :
         \E lookup \in (IF company = "None" THEN {"ok"} ELSE CallOutcomes) :
           LET listed == wanted # {} /\ company # "None"
               paths == IF listed
                        THEN paths_to_append
                             \o document_paths(company_documents(CompanyNumber(company)),
                                               wanted, 1)
                        ELSE paths_to_append
           IN IF lookup = "raise"
              THEN /\ pc' = "raised"
                   /\ result' = Raised("db_list_company_documents_func")
                   /\ UNCHANGED <<paths_to_append, pdf_writer, path_idx>>
              ELSE /\ paths_to_append' = paths
                   /\ IF paths = <<>>
                      THEN /\ pc' = "returned"
                           /\ result' = main_pdf_bytes
                           /\ UNCHANGED <<pdf_writer, path_idx>>
                      ELSE /\ pc' = "read_base"
                           /\ pdf_writer' = <<>>
                           /\ path_idx' = 1
                           /\ UNCHANGED result
  /\ pv_details_pdf' = EmptyDetails
  /\ product_ids_for_datasheets' = <<>>
  /\ UNCHANGED <<stored, avars, xvars, inputvars, offer_number_final,
                 storyvars, main_offer_buffer, main_pdf_bytes, include_all_documents_opt,
                 datasheet_count, unreadable, final_buffer>>

\* lines 891-896: the base document is read back into the writer
ReadBase ==
  /\ pc = "read_base"
  /\ \E ro \in CallOutcomes :
       IF ro = "raise"
       THEN /\ pc' = "returned"
            /\ result' = main_pdf_bytes
            /\ UNCHANGED pdf_writer
       ELSE /\ pc' = "append"
            /\ pdf_writer' = add_pages(pdf_writer, main_pdf_bytes.pages)
            /\ UNCHANGED result
  /\ UNCHANGED <<stored, avars, xvars, inputvars, offer_number_final,
                 storyvars, main_offer_buffer, main_pdf_bytes, include_all_documents_opt,
                 pv_details_pdf, product_ids_for_datasheets, paths_to_append,
                 datasheet_count, path_idx, unreadable, final_buffer>>

\* lines 898-903: one iteration of the loop over paths_to_append; pages
\* added before an exception stay in the writer
AppendFile ==
  /\ pc = "append"
  /\ path_idx <= Len(paths_to_append)
  /\ LET pages == file_pages(paths_to_append[path_idx])
     IN \E ao \in AppendOutcomes :
          /\ ao = "breaks_off" => Len(pages) > 1
          /\ pdf_writer' =
               IF ao = "ok" THEN add_pages(pdf_writer, pages)
               ELSE IF ao = "breaks_off" THEN add_pages(pdf_writer, <<Head(pages)>>)
               ELSE pdf_writer
          /\ unreadable' = IF ao = "ok" THEN unreadable ELSE unreadable \cup {path_idx}
  /\ path_idx' = path_idx + 1
  /\ UNCHANGED <<stored, avars, xvars, inputvars, offer_number_final,
                 storyvars, main_offer_buffer, main_pdf_bytes, include_all_documents_opt,
                 pv_details_pdf, product_ids_for_datasheets, paths_to_append,
                 datasheet_count, final_buffer, pc, result>>

\* lines 905-913: the writer is written out; on an exception the base
\* bytes are returned
WriteFinal ==
  /\ pc = "append"
  /\ path_idx > Len(paths_to_append)
  /\ \E wo \in CallOutcomes :
       result' = IF wo = "ok" THEN MergedDocument(pdf_writer) ELSE main_pdf_bytes
  /\ final_buffer' = "closed"
  /\ pc' = "returned"
  /\ UNCHANGED <<stored, avars, xvars, inputvars, offer_number_final,
                 storyvars, main_offer_buffer, main_pdf_bytes, include_all_documents_opt,
                 pv_details_pdf, product_ids_for_datasheets, paths_to_append,
                 datasheet_count, pdf_writer, path_idx, unreadable>>

(***************************************************************************)
(* doc.build with the PageNumCanvas (lines 136-164, 237-267, 836-844).     *)
(***************************************************************************)
MaxPages == 3    \* pages that doc.build flows
MaxMarkers == 2  \* chapter-title markers in the story

\* one entry of a canvas operation list (Canvas._code)
Op(op, text, cur, total) ==
  [op |-> op, text |-> text, cur |-> cur, total |-> total]

\* the ' ' that Canvas.showPage appends before it emits the page
Blank == Op(" ", "", 0, 0)

\* what drawing a story flowable leaves in the operation list
ContentOp == Op("flowable", "", 0, 0)
MarkerOp(title) == Op("SetCurrentChapterTitle", title, 0, 0)

\* a chapter title whose markup the Paragraph parser rejects
MalformedTitle == "<b>Kosten"

\* titles the texts dictionary can resolve a chapter title to
ChapterTitles == {"Anschreiben", "Kosten", MalformedTitle}

\* company_logo_base64: no logo, an empty string, image data, other data
LogoValues == {"None", "", "png_base64", "not_an_image"}

\* _get_image_flowable returns an Image for this logo data
logo_decodes(logo) == logo = "png_base64"

\* line 838: the logo handed to the decorator
company_logo_base64_ref ==
  IF include_company_logo_opt THEN company_logo_base64 ELSE "None"

\* PageNumCanvas.__init__: the attributes a page snapshot copies
NewCanvas ==
  [pageNumber |-> 1, total_pages |-> 0,
   current_chapter_title_for_header |-> "", code |-> 1]

\* no document is being built
NoBuild ==
  /\ cpc = "idle"
  /\ include_company_logo_opt = TRUE
  /\ company_logo_base64 = "None"
  /\ pdf_footer_text = ""
  /\ canv = NewCanvas
  /\ code_lists = [l \in 1 .. (MaxPages + 2) |-> <<>>]
  /\ saved_page_states = <<>>
  /\ doc_pages = <<>>
  /\ state_idx = 0
  /\ flowed_pages = 0
  /\ markers_drawn = 0
  /\ events = <<>>

\* page_layout_handler, drawing the footer on the cover page too
page_layout_handler_on_cover(page_num, title, total_pages, logo_ref, footer_line) ==
  [ops |-> <<Op("saveState", "", 0, 0), Op("footer", "", page_num, total_pages),
             Op("restoreState", "", 0, 0)>>,
   raised |-> FALSE]

\* page_layout_handler: the operations it draws, and whether it raised
page_layout_handler(page_num, title, total_pages, logo_ref, footer_line) ==
  LET logo == IF logo_ref \notin {"None", ""} /\ page_num > 1 /\ logo_decodes(logo_ref)
              THEN <<Op("drawImage", logo_ref, 0, 0)>> ELSE <<>>
      header == IF title # "" /\ page_num > 1
                THEN <<Op("ChapterHeader", title, 0, 0)>> ELSE <<>>
      footer == IF page_num > 1
                THEN <<Op("footer", "", page_num, total_pages)>> ELSE <<>>
      company == IF footer_line # "" /\ page_num > 1
                 THEN <<Op("company_footer", footer_line, 0, 0)>> ELSE <<>>
  IN  IF title = MalformedTitle /\ page_num > 1
      THEN [ops |-> <<Op("saveState", "", 0, 0)>> \o logo, raised |-> TRUE]
      ELSE [ops |-> <<Op("saveState", "", 0, 0)>> \o logo \o header \o footer
                      \o company \o <<Op("restoreState", "", 0, 0)>>,
            raised |-> FALSE]

\* a restore that leaves the live chapter title in place
restore_state_keeping_title(d, state) ==
  [state EXCEPT !.current_chapter_title_for_header =
                   d.current_chapter_title_for_header]

\* self.__dict__.update(state): every attribute of the snapshot replaces
\* the live one
restore_state(d, state) == state

\* PageNumCanvas.showPage: snapshot, then Canvas.showPage emits the page
\* from the current operation list and starts a new list
showPage ==
  /\ saved_page_states' = Append(saved_page_states, canv)
  /\ code_lists' = [code_lists EXCEPT ![canv.code] = Append(@, Blank)]
  /\ doc_pages' = Append(doc_pages, Append(code_lists[canv.code], Blank))
  /\ canv' = [canv EXCEPT !.pageNumber = @ + 1,
                          !.code = Len(saved_page_states) + 2]
  /\ events' = Append(events, [ev |-> "showPage", page |-> canv.pageNumber])

configvars == <<include_company_logo_opt, company_logo_base64, pdf_footer_text>>

\* doc.build draws a flowable of the story onto the current page
DrawFlowable ==
  /\ cpc = "flow"
  /\ LET code == code_lists[canv.code] IN
       /\ IF code = <<>> THEN TRUE ELSE code[Len(code)] # ContentOp
       /\ code_lists' = [code_lists EXCEPT ![canv.code] = Append(code, ContentOp)]
  /\ UNCHANGED <<stored, avars, pvars, uvars, nvars, hvars, zvars, configvars, cpc, canv, saved_page_states,
                 doc_pages, state_idx, flowed_pages, markers_drawn, events>>

\* doc.build draws a SetCurrentChapterTitle marker (after the cover page)
DrawMarker(titles) ==
  /\ cpc = "flow"
  /\ canv.pageNumber > 1
  /\ markers_drawn < MaxMarkers
  /\ \E title \in titles :
       /\ canv' = [canv EXCEPT !.current_chapter_title_for_header = title]
       /\ code_lists' = [code_lists EXCEPT ![canv.code] = Append(@, MarkerOp(title))]
  /\ markers_drawn' = markers_drawn + 1
  /\ UNCHANGED <<stored, avars, pvars, uvars, nvars, hvars, zvars, configvars, cpc, saved_page_states,
                 doc_pages, state_idx, flowed_pages, events>>

\* doc.build ends a page that holds something
EndPage ==
  /\ cpc = "flow"
  /\ code_lists[canv.code] # <<>>
  /\ flowed_pages < MaxPages
  /\ showPage
  /\ flowed_pages' = flowed_pages + 1
  /\ UNCHANGED <<stored, avars, pvars, uvars, nvars, hvars, zvars, configvars, cpc, state_idx, markers_drawn>>

\* doc.build calls PageNumCanvas.save once the last page has ended
Save ==
  /\ cpc = "flow"
  /\ flowed_pages >= 1
  /\ code_lists[canv.code] = <<>>
  /\ canv' = [canv EXCEPT !.total_pages = Len(saved_page_states)]
  /\ state_idx' = 0
  /\ cpc' = "save_loop"
  /\ UNCHANGED <<stored, avars, pvars, uvars, nvars, hvars, zvars, configvars, code_lists, saved_page_states,
                 doc_pages, flowed_pages, markers_drawn, events>>

\* one iteration of the loop of PageNumCanvas.save
DecoratePage ==
  /\ cpc = "save_loop"
  /\ state_idx < Len(saved_page_states)
  /\ LET d == [restore_state(canv, saved_page_states[state_idx + 1])
                 EXCEPT !.pageNumber = state_idx + 1]
         r == page_layout_handler(d.pageNumber, d.current_chapter_title_for_header,
                                  d.total_pages, company_logo_base64_ref,
                                  pdf_footer_text)
     IN  /\ canv' = d
         /\ code_lists' = [code_lists EXCEPT ![d.code] = @ \o r.ops]
         /\ events' = Append(events, [ev |-> "decorate", page |-> d.pageNumber])
         /\ IF r.raised
              THEN cpc' = "raised" /\ UNCHANGED state_idx
              ELSE state_idx' = state_idx + 1 /\ UNCHANGED cpc
  /\ UNCHANGED <<stored, avars, pvars, uvars, nvars, hvars, zvars, configvars, saved_page_states, doc_pages,
                 flowed_pages, markers_drawn>>

\* super().save(): Canvas.save shows the page whose operation list is not
\* empty, then writes the document
SuperSave ==
  /\ cpc = "save_loop"
  /\ state_idx = Len(saved_page_states)
  /\ IF code_lists[canv.code] # <<>>
       THEN showPage
       ELSE UNCHANGED <<saved_page_states, code_lists, doc_pages, canv, events>>
  /\ cpc' = "saved"
  /\ UNCHANGED <<stored, avars, pvars, uvars, nvars, hvars, zvars, configvars, state_idx, flowed_pages,
                 markers_drawn>>

(***************************************************************************)
(* The Visualizations section (lines 770-817).                             *)
(***************************************************************************)
MaxChartsSelected == 3  \* length of selected_charts_for_pdf

\* the keys of charts_config_for_pdf_generator, in the order of the dict
charts_config_for_pdf_generator ==
  <<"monthly_prod_cons_chart_bytes", "cost_projection_chart_bytes",
    "cumulative_cashflow_chart_bytes", "consumption_coverage_pie_chart_bytes",
    "pv_usage_pie_chart_bytes", "daily_production_switcher_chart_bytes",
    "weekly_production_switcher_chart_bytes",
    "yearly_production_switcher_chart_bytes",
    "project_roi_matrix_switcher_chart_bytes",
    "feed_in_revenue_switcher_chart_bytes", "prod_vs_cons_switcher_chart_bytes",
    "tariff_cube_switcher_chart_bytes", "co2_savings_value_switcher_chart_bytes",
    "investment_value_switcher_chart_bytes", "storage_effect_switcher_chart_bytes",
    "selfuse_stack_switcher_chart_bytes", "cost_growth_switcher_chart_bytes",
    "selfuse_ratio_switcher_chart_bytes", "roi_comparison_switcher_chart_bytes",
    "scenario_comparison_switcher_chart_bytes",
    "tariff_comparison_switcher_chart_bytes",
    "income_projection_switcher_chart_bytes", "yearly_production_chart_bytes",
    "break_even_chart_bytes", "amortisation_chart_bytes">>

\* the chart keys a call's inputs are drawn from: three keys of the catalog,
\* and a key the catalog does not hold
ChartUniverse ==
  {charts_config_for_pdf_generator[1], charts_config_for_pdf_generator[2],
   charts_config_for_pdf_generator[Len(charts_config_for_pdf_generator)],
   "unknown_chart_bytes"}

\* inclusion_options["selected_charts_for_pdf"]
ChartSelections == SeqsUpTo(ChartUniverse, MaxChartsSelected)

\* the analysis results of a call, as far as the charts go: a chart of the
\* catalog is None, b"", the bytes of an image or other bytes; the key
\* outside the catalog holds an image
ChartResults ==
  {[k \in ChartUniverse |-> IF k = "unknown_chart_bytes" THEN "png" ELSE
                            IF k = charts_config_for_pdf_generator[1] THEN b[1] ELSE
                            IF k = charts_config_for_pdf_generator[2] THEN b[2] ELSE b[3]] :
     b \in [1 .. 3 -> {"None", "empty", "png", "not_an_image"}]}

\* one pass of the chart loop that does not look at the selection
chart_flowables_unselected(chart_key, selected, bytes) ==
  IF bytes \in {"None", "empty"} THEN <<>>
  ELSE IF bytes = "png"
       THEN <<Flowable("ChartTitle", chart_key, 0), Flowable("Image", chart_key, 0),
              Flowable("Spacer", chart_key, 0)>>
       ELSE <<Flowable("ChartTitle", chart_key, 0),
              Flowable("LoadError", chart_key, 0), Flowable("Spacer", chart_key, 0)>>

\* lines 804-813: what one pass of the chart loop appends to the story
chart_flowables(chart_key, selected, bytes) ==
  IF chart_key \notin Range(selected) THEN <<>>
  ELSE IF bytes \in {"None", "empty"} THEN <<>>
  ELSE IF bytes = "png"
       THEN <<Flowable("ChartTitle", chart_key, 0), Flowable("Image", chart_key, 0),
              Flowable("Spacer", chart_key, 0)>>
       ELSE <<Flowable("ChartTitle", chart_key, 0),
              Flowable("LoadError", chart_key, 0), Flowable("Spacer", chart_key, 0)>>

\* two independent tests in place of the if / elif of lines 814-817
closing_notes_unchained(added_count, selected) ==
  (IF added_count = 0 THEN <<Flowable("NotRenderableNote", "", 0)>> ELSE <<>>)
  \o (IF selected = <<>> THEN <<Flowable("NoneSelectedNote", "", 0)>> ELSE <<>>)

\* lines 814-817: the note that closes the section
closing_notes(added_count, selected) ==
  IF added_count = 0 /\ selected # <<>>
  THEN <<Flowable("NotRenderableNote", "", 0)>>
  ELSE IF selected = <<>> THEN <<Flowable("NoneSelectedNote", "", 0)>>
  ELSE <<>>

IsImage(f) == f.kind = "Image"

\* no Visualizations section is being rendered
NoCharts ==
  /\ vpc = "idle"
  /\ selected_charts_for_pdf_opt = <<>>
  /\ current_analysis_results_pdf = [k \in ChartUniverse |-> "None"]
  /\ chart_idx = 0
  /\ charts_added_count = 0
  /\ chart_story = <<>>

\* one pass of the loop over charts_config_for_pdf_generator.items()
RenderChart ==
  /\ vpc = "charts"
  /\ chart_idx < Len(charts_config_for_pdf_generator)
  /\ LET chart_key == charts_config_for_pdf_generator[chart_idx + 1]
         chart_image_bytes ==
           IF chart_key \in DOMAIN current_analysis_results_pdf
           THEN current_analysis_results_pdf[chart_key] ELSE "None"
         new == chart_flowables(chart_key, selected_charts_for_pdf_opt,
                                chart_image_bytes)
     IN  /\ chart_story' = chart_story \o new
         /\ charts_added_count' = charts_added_count + Len(SelectSeq(new, IsImage))
  /\ chart_idx' = chart_idx + 1
  /\ UNCHANGED <<stored, avars, pvars, uvars, nvars, hvars, cvars, vpc, selected_charts_for_pdf_opt,
                 current_analysis_results_pdf>>

\* the end of the loop: the closing note
CloseCharts ==
  /\ vpc = "charts"
  /\ chart_idx = Len(charts_config_for_pdf_generator)
  /\ chart_story' = chart_story \o closing_notes(charts_added_count,
                                                 selected_charts_for_pdf_opt)
  /\ vpc' = "done"
  /\ UNCHANGED <<stored, avars, pvars, uvars, nvars, hvars, cvars, selected_charts_for_pdf_opt,
                 current_analysis_results_pdf, chart_idx, charts_added_count>>

(***************************************************************************)
(* The table helpers (lines 342-413).                                      *)
(***************************************************************************)
MaxCostDeviations == 2  \* cost items whose value differs from the others'
MaxSimYears == 12       \* simulation_period_years_effective

\* no helper has been called
NoHelperCall ==
  /\ called = "none"
  /\ args = <<>>
  /\ returned = <<>>

\* cost_items_ordered_pdf: result key and label key of each item
cost_items_ordered_pdf ==
  << <<"base_matrix_price_netto", "base_matrix_price_netto">>,
     <<"cost_modules_aufpreis_netto", "cost_modules">>,
     <<"cost_inverter_aufpreis_netto", "cost_inverter">>,
     <<"cost_storage_aufpreis_product_db_netto", "cost_storage">>,
     <<"total_optional_components_cost_netto",
       "total_optional_components_cost_netto_label">>,
     <<"cost_accessories_aufpreis_netto", "cost_accessories_aufpreis_netto">>,
     <<"cost_scaffolding_netto", "cost_scaffolding_netto">>,
     <<"cost_misc_netto", "cost_misc_netto">>,
     <<"cost_custom_netto", "cost_custom_netto">>,
     <<"subtotal_netto", "subtotal_netto">>,
     <<"one_time_bonus_eur", "one_time_bonus_eur_label">>,
     <<"total_investment_netto", "total_investment_netto">>,
     <<"vat_rate_percent", "vat_rate_percent">>,
     <<"total_investment_brutto", "total_investment_brutto">> >>

\* the cost entries of the analysis results, each None, zero or an amount:
\* one value for all items but at most MaxCostDeviations of them
CostInputs ==
  LET keys == {cost_items_ordered_pdf[i][1] : i \in DOMAIN cost_items_ordered_pdf}
  IN  {[k \in keys |-> IF k \in D THEN v[2] ELSE v[1]] :
         v \in [1 .. 2 -> {"None", "0.0", "1500.0"}],
         D \in {S \in SUBSET keys : Cardinality(S) <= MaxCostDeviations}}

\* line 363 without its list of keys
cost_item_shown_if_not_zero(result_key, value_cost) ==
  value_cost # "None" /\ value_cost # "0.0"

\* lines 362-364: the item gets a row
cost_item_shown(result_key, value_cost) ==
  /\ value_cost # "None"
  /\ ~(/\ value_cost = "0.0"
       /\ result_key \notin {"total_investment_netto", "total_investment_brutto",
                             "subtotal_netto", "vat_rate_percent",
                             "base_matrix_price_netto", "one_time_bonus_eur"})

RECURSIVE cost_rows(_, _)
\* the rows of the items i .. 14, in the order of the loop
cost_rows(analysis_results, i) ==
  IF i > Len(cost_items_ordered_pdf) THEN <<>>
  ELSE LET result_key == cost_items_ordered_pdf[i][1]
           label_key == cost_items_ordered_pdf[i][2]
           value_cost == analysis_results[result_key]
           row == [result_key |-> result_key, value |-> value_cost,
                   unit |-> IF result_key # "vat_rate_percent" THEN "€" ELSE "%",
                   precision |-> IF label_key = "vat_rate_percent" THEN 1 ELSE 2]
       IN  (IF cost_item_shown(result_key, value_cost) THEN <<row>> ELSE <<>>)
           \o cost_rows(analysis_results, i + 1)

\* a call of _prepare_cost_table_for_pdf
PrepareCostTable(inputs) ==
  /\ called = "none"
  /\ \E analysis_results \in inputs :
       /\ args' = analysis_results
       /\ returned' = cost_rows(analysis_results, 1)
  /\ called' = "_prepare_cost_table_for_pdf"
  /\ UNCHANGED <<stored, avars, pvars, uvars, nvars, cvars, zvars>>

\* the series the columns of the simulation table read
header_config_pdf ==
  <<"annual_productions_sim", "annual_benefits_sim",
    "annual_maintenance_costs_sim", "annual_cash_flows_sim",
    "cumulative_cash_flows_sim_display">>

\* None as an element of a series
NoElement == -1

\* a value that is not a list
NotAList == <<-2>>

\* analysis_results of a call: the period and the five series. Element i
\* (from 0) of series k is 100 k + i; a series is no list, a list of three
\* elements, of one element per year, or of one more
SimInputs ==
  LET Series(k, len) == [i \in 1 .. len |-> 100 * k + i - 1]
      SeriesChoices(k, period) ==
        {NotAList, Series(k, 3), Series(k, period), Series(k, period + 1)}
  IN
  UNION {
    {[simulation_period_years_effective |-> period,
      annual_productions_sim |-> s1, annual_benefits_sim |-> s2,
      annual_maintenance_costs_sim |-> s3, annual_cash_flows_sim |-> s4,
      cumulative_cash_flows_sim |-> s5] :
       s1 \in SeriesChoices(1, period), s2 \in SeriesChoices(2, period),
       s3 \in SeriesChoices(3, period), s4 \in SeriesChoices(4, period),
       s5 \in SeriesChoices(5, period)} :
    period \in 0 .. MaxSimYears}

\* the default of the parameter num_years_to_show
num_years_to_show == 10

\* a display that is not cut off at num_years_to_show
actual_years_uncapped(sim_period_eff_pdf, years_to_show) == sim_period_eff_pdf

\* line 392: min(sim_period_eff_pdf, num_years_to_show)
actual_years_to_display_pdf(sim_period_eff_pdf, years_to_show) ==
  IF sim_period_eff_pdf < years_to_show THEN sim_period_eff_pdf ELSE years_to_show

\* a display that keeps the year 0 of the cumulative series
cumulative_cash_flows_sim_with_seed(analysis_results) ==
  LET base == analysis_results.cumulative_cash_flows_sim
      period == analysis_results.simulation_period_years_effective
  IN  IF base # NotAList /\ Len(base) = period + 1
      THEN base
      ELSE [i \in 1 .. period |-> NoElement]

\* lines 393-397: analysis_results['cumulative_cash_flows_sim_display']
cumulative_cash_flows_sim_display(analysis_results) ==
  LET base == analysis_results.cumulative_cash_flows_sim
      period == analysis_results.simulation_period_years_effective
  IN  IF base # NotAList /\ Len(base) = period + 1
      THEN SubSeq(base, 2, Len(base))
      ELSE [i \in 1 .. period |-> NoElement]

\* line 404: element i_pdf of the list, None beyond its end or without a list
value_to_format_pdf(current_list_pdf, i_pdf) ==
  IF current_list_pdf # NotAList /\ i_pdf < Len(current_list_pdf)
  THEN current_list_pdf[i_pdf + 1]
  ELSE NoElement

\* lines 377-413: the rows of the simulation table
simulation_rows(analysis_results, years_to_show) ==
  LET period == analysis_results.simulation_period_years_effective
      display == cumulative_cash_flows_sim_display(analysis_results)
      column(j, i_pdf) ==
        IF j = Len(header_config_pdf) THEN value_to_format_pdf(display, i_pdf)
        ELSE value_to_format_pdf(analysis_results[header_config_pdf[j]], i_pdf)
      data == [i \in 1 .. actual_years_to_display_pdf(period, years_to_show) |->
                 [kind |-> "data", year |-> i,
                  cells |-> [j \in DOMAIN header_config_pdf |-> column(j, i - 1)]]]
      other(kind) == [kind |-> kind, year |-> 0, cells |-> <<>>]
  IN  IF period = 0 THEN <<other("header")>>
      ELSE <<other("header")>> \o data
           \o (IF period > years_to_show THEN <<other("ellipsis")>> ELSE <<>>)

\* lines 389-397: the dictionary the caller handed over, as the call leaves
\* it: with a period other than 0 the displayed series is stored in it
analysis_results_after_call(analysis_results) ==
  IF analysis_results.simulation_period_years_effective = 0 THEN analysis_results
  ELSE [key \in DOMAIN analysis_results \cup {"cumulative_cash_flows_sim_display"} |->
          IF key = "cumulative_cash_flows_sim_display"
          THEN cumulative_cash_flows_sim_display(analysis_results)
          ELSE analysis_results[key]]

\* a call of _prepare_simulation_table_for_pdf, as the SimulationDetails
\* section makes it at line 752 with the dictionary of the caller of
\* generate_offer_pdf (line 562 binds that dictionary itself); args is the
\* dictionary after the call
PrepareSimulationTable(inputs) ==
  /\ called = "none"
  /\ \E analysis_results \in inputs :
       /\ args' = analysis_results_after_call(analysis_results)
       /\ returned' = simulation_rows(analysis_results, num_years_to_show)
  /\ called' = "_prepare_simulation_table_for_pdf"
  /\ UNCHANGED <<stored, avars, pvars, uvars, nvars, cvars, zvars>>

(***************************************************************************)
(* format_kpi_value (lines 79-101).  Strings are sequences of characters;  *)
(* a number is held in eighths, which a float represents exactly, so that  *)
(* the rounding of the format specification is the rounding of the tie.    *)
(***************************************************************************)
MaxPrecision == 2  \* the precision argument

\* the characters of the decimal digits 0 .. 9
Digits == <<"0", "1", "2", "3", "4", "5", "6", "7", "8", "9">>

\* a value handed to format_kpi_value: "None", "nan", "inf", "float" (n
\* eighths) or "str" (its characters)
Kpi(type, n, chars) == [type |-> type, n |-> n, chars |-> chars]

RECURSIVE FixedDigits(_, _)
\* the last width decimal digits of v
FixedDigits(v, width) ==
  IF width = 0 THEN <<>>
  ELSE Append(FixedDigits(v \div 10, width - 1), Digits[(v % 10) + 1])

\* f"{value:,.{precision}f}" for value = n / 8: round half to even, group
\* the integer digits by ',' and put '.' before the fraction
format_fixed(n, precision, grouped) ==
  LET RECURSIVE IntChars(_)
      IntChars(v) == IF v < 10 THEN <<Digits[v + 1]>>
                     ELSE Append(IntChars(v \div 10), Digits[(v % 10) + 1])
      RECURSIVE Group(_)
      Group(cs) == IF Len(cs) <= 3 THEN cs
                   ELSE Group(SubSeq(cs, 1, Len(cs) - 3)) \o <<",">>
                        \o SubSeq(cs, Len(cs) - 2, Len(cs))
      scale == 10 ^ precision
      size == IF n < 0 THEN 0 - n ELSE n
      whole == size \div 8
      down == ((size % 8) * scale) \div 8
      rest == ((size % 8) * scale) % 8
      odd == (((whole % 2) * (scale % 2)) + down) % 2 = 1
      frac == IF rest > 4 \/ (rest = 4 /\ odd) THEN down + 1 ELSE down
      int_chars == IntChars(IF frac = scale THEN whole + 1 ELSE whole)
  IN  (IF n < 0 THEN <<"-">> ELSE <<>>)
      \o (IF grouped THEN Group(int_chars) ELSE int_chars)
      \o (IF precision > 0 THEN <<".">> \o FixedDigits(frac % scale, precision)
          ELSE <<>>)

\* the number string as f"{value:,.{precision}f}" left it
formatted_num_en_kept(formatted_num_en) == formatted_num_en

\* line 99: ',' and '.' change places
formatted_num_de(formatted_num_en) ==
  [i \in DOMAIN formatted_num_en |->
     IF formatted_num_en[i] = "," THEN "."
     ELSE IF formatted_num_en[i] = "." THEN "," ELSE formatted_num_en[i]]

RECURSIVE strip(_)
\* str.strip() for the blank
strip(cs) ==
  IF cs = <<>> THEN cs
  ELSE IF cs[1] = " " THEN strip(Tail(cs))
  ELSE IF cs[Len(cs)] = " " THEN strip(SubSeq(cs, 1, Len(cs) - 1))
  ELSE cs

\* lines 87-90: the string handed to float()
cleaned_value_str(value) ==
  LET rfind(c) == IF \E i \in DOMAIN value : value[i] = c
                  THEN CHOOSE i \in DOMAIN value :
                         value[i] = c /\ \A j \in DOMAIN value : value[j] = c => j <= i
                  ELSE 0
      NoComma(c) == c # ","
      NoDot(c) == c # "."
      cleaned == IF rfind(".") > 0 /\ rfind(",") > 0
                 THEN IF rfind(".") > rfind(",") THEN SelectSeq(value, NoComma)
                      ELSE SelectSeq(value, NoDot)
                 ELSE value
  IN  [i \in DOMAIN cleaned |-> IF cleaned[i] = "," THEN "." ELSE cleaned[i]]

\* float(cleaned_value_str): a sign, then nan, inf, or decimal digits around
\* at most one point; anything else is a ValueError. The strings of the
\* calls hold fractions that are whole eighths.
float_of(cs) ==
  LET signed == cs # <<>> /\ cs[1] \in {"-", "+"}
      body == IF signed THEN Tail(cs) ELSE cs
      sign == IF signed /\ cs[1] = "-" THEN 0 - 1 ELSE 1
      points == {i \in DOMAIN body : body[i] = "."}
      point == IF points = {} THEN Len(body) + 1 ELSE CHOOSE i \in points : TRUE
      IsDigit(c) == \E d \in DOMAIN Digits : Digits[d] = c
      NotPoint(c) == c # "."
      digits == SelectSeq(body, NotPoint)
      RECURSIVE Value(_)
      Value(ds) == IF ds = <<>> THEN 0
                   ELSE 10 * Value(SubSeq(ds, 1, Len(ds) - 1))
                        + ((CHOOSE d \in DOMAIN Digits : Digits[d] = ds[Len(ds)]) - 1)
      places == Len(body) - point
  IN  IF body = <<"n", "a", "n">> THEN [ok |-> TRUE, value |-> Kpi("nan", 0, <<>>)]
      ELSE IF body = <<"i", "n", "f">> THEN [ok |-> TRUE, value |-> Kpi("inf", sign, <<>>)]
      ELSE IF /\ Cardinality(points) <= 1
              /\ digits # <<>>
              /\ \A i \in DOMAIN digits : IsDigit(digits[i])
           THEN [ok |-> TRUE,
                 value |-> Kpi("float",
                               sign * ((Value(digits) * 8)
                                       \div (10 ^ (IF places < 0 THEN 0 ELSE places))),
                               <<>>)]
           ELSE [ok |-> FALSE, value |-> Kpi("str", 0, cs)]

\* a formatter that does not know its own N/A text
is_na_text_never(value, na_text) == FALSE

\* line 83: the value is the N/A string itself
is_na_text(value, na_text) == value.type = "str" /\ value.chars = na_text

\* format_kpi_value with the default texts but for the N/A text
format_kpi_value(value, unit, na_text, precision) ==
  LET parsed == IF value.type = "str" THEN float_of(cleaned_value_str(value.chars))
                ELSE [ok |-> TRUE, value |-> value]
      number == parsed.value
  IN  IF value.type \in {"None", "nan"} THEN na_text
      ELSE IF is_na_text(value, na_text) THEN value.chars
      ELSE IF ~parsed.ok THEN value.chars
      ELSE IF number.type = "inf"
           THEN <<"N", "i", "c", "h", "t", " ", "b", "e", "r", "e", "c", "h", "e",
                  "n", "b", "a", "r">>
      ELSE IF unit = <<"J", "a", "h", "r", "e">>
           THEN (IF number.type = "nan" THEN <<"n", "a", "n">>
                 ELSE format_fixed(number.n, 1, FALSE))
                \o <<" ", "J", "a", "h", "r", "e">>
      ELSE strip(formatted_num_de(IF number.type = "nan" THEN <<"n", "a", "n">>
                                  ELSE format_fixed(number.n, precision, TRUE))
                 \o <<" ">> \o unit)

\* the calls of format_kpi_value: value, unit, resolved N/A text, precision
KpiCalls ==
  LET values ==
        {Kpi("None", 0, <<>>), Kpi("nan", 0, <<>>), Kpi("inf", 1, <<>>)}
        \cup {Kpi("float", n, <<>>) :
                n \in {0, 1, 4, 26, 100, 9876, 7999996, 8000000, 0 - 1, 0 - 9876}}
        \cup {Kpi("str", 0, cs) :
                cs \in {<<>>, <<"k", ".", "A", ".">>, <<"-">>, <<"0">>,
                        <<"a", "b", "c">>, <<"1", "2", ",", "5">>,
                        <<"1", ".", "2", "3", "4", ",", "5">>,
                        <<"1", ",", "2", "3", "4", ".", "5">>, <<"n", "a", "n">>}}
      units == {<<>>, <<"%">>, <<"€">>, <<"k", "W", "h">>,
                <<"J", "a", "h", "r", "e">>}
  IN  [value : values, unit : units,
       na_text : {<<"k", ".", "A", ".">>, <<"-">>, <<"0">>},
       precision : 0 .. MaxPrecision]

\* a call of format_kpi_value
FormatKpiValue(calls) ==
  /\ called = "none"
  /\ \E call \in calls :
       /\ args' = [call EXCEPT !.value = [first |-> call.value, now |-> call.value]]
       /\ returned' = format_kpi_value(call.value, call.unit, call.na_text,
                                       call.precision)
  /\ called' = "format_kpi_value"
  /\ UNCHANGED <<stored, avars, pvars, uvars, nvars, cvars, zvars>>

\* the N/A string that a call returned for None is handed to
\* format_kpi_value again, with the same texts and any unit and precision
FormatAgain(calls) ==
  /\ called = "format_kpi_value"
  /\ args.value.first.type = "None"
  /\ \E call \in calls :
       /\ call.na_text = args.na_text
       /\ call.value = args.value.first
       /\ args' = [call EXCEPT
                     !.value = [first |-> args.value.first,
                                now |-> Kpi("str", 0, returned)]]
       /\ returned' = format_kpi_value(Kpi("str", 0, returned), call.unit,
                                       call.na_text, call.precision)
  /\ called' = "format_kpi_value again"
  /\ UNCHANGED <<stored, avars, pvars, uvars, nvars, cvars, zvars>>

(***************************************************************************)
(* _generate_complete_salutation_line (lines 269-296).  A text is a        *)
(* sequence of blanks " " and blank-free words; a field of the customer    *)
(* dictionary is a text or is absent.                                      *)
(***************************************************************************)
\* a key the dictionary does not hold
NoKey == [type |-> "missing", chars |-> <<>>]

\* a string value
Str(chars) == [type |-> "str", chars |-> chars]

\* get_text (lines 73-77) on a texts dictionary that holds the keys of
\* texts_dict, each with a text of its own: the word named after the key
get_text(texts_dict, key, fallback_text_value) ==
  IF key \in texts_dict THEN <<key>> ELSE fallback_text_value

\* the keys _generate_complete_salutation_line looks up
SalutationTextKeys ==
  {"salutation_polite", "salutation_male_polite", "salutation_female_polite",
   "salutation_family_polite", "salutation_company_polite",
   "salutation_generic_fallback", "family_default_name_pdf"}

\* the customers and texts of the calls
SalutationInputs ==
  [customer_data :
     [salutation : {NoKey, Str(<<"Herr">>), Str(<<"herr", " ">>), Str(<<"Frau">>),
                    Str(<<"FRAU">>), Str(<<"Familie">>), Str(<<"Firma">>),
                    Str(<<"Divers">>), Str(<<>>)},
      title : {NoKey, Str(<<>>), Str(<<"Dr.">>)},
      first_name : {NoKey, Str(<<" ">>), Str(<<"Anna">>)},
      last_name : {NoKey, Str(<<>>), Str(<<" ">>), Str(<<"Muster">>)},
      company_name : {NoKey, Str(<<>>), Str(<<" ">>),
                      Str(<<"Muster", " ", "GmbH">>)}],
   texts : {{}, SalutationTextKeys}]

\* customer_data.get(key, default)
dict_get(customer_data, key, default) ==
  IF customer_data[key].type = "missing" THEN default ELSE customer_data[key]

\* every given name part, blank ones too
name_parts_all(customer_data) ==
  LET part(key) == dict_get(customer_data, key, Str(<<>>)).chars
  IN  <<part("title"), part("first_name"), part("last_name")>>

\* line 275: the name parts that are not blank
name_parts(customer_data) ==
  LET part(key) == dict_get(customer_data, key, Str(<<>>)).chars
      NotBlank(p) == p # <<>> /\ strip(p) # <<>>
  IN  SelectSeq(<<part("title"), part("first_name"), part("last_name")>>, NotBlank)

RECURSIVE join(_, _)
\* sep.join(parts)
join(sep, parts) ==
  IF parts = <<>> THEN <<>>
  ELSE IF Len(parts) = 1 THEN parts[1]
  ELSE parts[1] \o sep \o join(sep, Tail(parts))

\* str.lower() of the salutations of the calls
lower(cs) ==
  [i \in DOMAIN cs |->
     CASE cs[i] \in {"Herr", "herr"} -> "herr"
       [] cs[i] \in {"Frau", "FRAU"} -> "frau"
       [] cs[i] = "Familie" -> "familie"
       [] cs[i] = "Firma" -> "firma"
       [] cs[i] = "Divers" -> "divers"
       [] OTHER -> cs[i]]

\* _generate_complete_salutation_line
generate_complete_salutation_line(customer_data, texts) ==
  LET salutation_value == customer_data.salutation
      last_name == dict_get(customer_data, "last_name", Str(<<>>)).chars
      customer_full_name_for_salutation ==
        strip(join(<<" ">>, name_parts(customer_data)))
      sl_lower == IF salutation_value.type = "str"
                  THEN strip(lower(salutation_value.chars)) ELSE <<"None">>
      salutation_key_base ==
        IF sl_lower = <<"herr">> THEN "salutation_male_polite"
        ELSE IF sl_lower = <<"frau">> THEN "salutation_female_polite"
        ELSE "salutation_polite"
      fam_name ==
        IF last_name # <<>> /\ strip(last_name) # <<>> THEN last_name
        ELSE dict_get(customer_data, "company_name",
                      Str(get_text(texts, "family_default_name_pdf",
                                   <<"Familie">>))).chars
      company_name == dict_get(customer_data, "company_name", Str(<<>>)).chars
      company_name_val == IF company_name # <<>> THEN company_name ELSE last_name
      generic_fallback ==
        get_text(texts, "salutation_generic_fallback",
                 <<"Sehr", " ", "geehrte", " ", "Damen", " ", "und", " ", "Herren,">>)
  IN  IF sl_lower = <<"familie">>
      THEN get_text(texts, "salutation_family_polite",
                    <<"Sehr", " ", "geehrte", " ", "Familie">>)
           \o <<" ">> \o strip(fam_name) \o <<",">>
      ELSE IF sl_lower = <<"firma">>
      THEN IF company_name_val # <<>>
           THEN get_text(texts, "salutation_company_polite",
                         <<"Sehr", " ", "geehrte", " ", "Damen", " ", "und", " ",
                           "Herren", " ", "der", " ", "Firma">>)
                \o <<" ">> \o strip(company_name_val) \o <<",">>
           ELSE generic_fallback
      ELSE IF customer_full_name_for_salutation # <<>>
      THEN get_text(texts, salutation_key_base, <<"Sehr", " ", "geehrte/r">>)
           \o <<" ">> \o customer_full_name_for_salutation \o <<",">>
      ELSE generic_fallback

\* a call of _generate_complete_salutation_line
GenerateSalutation(inputs) ==
  /\ called = "none"
  /\ \E call \in inputs :
       /\ args' = call
       /\ returned' = generate_complete_salutation_line(call.customer_data,
                                                        call.texts)
  /\ called' = "_generate_complete_salutation_line"
  /\ UNCHANGED <<stored, avars, pvars, uvars, nvars, cvars, zvars>>

(***************************************************************************)
(* _get_image_flowable (lines 197-235).  An image source is None, a string *)
(* or bytes; its content is named by what decoding makes of it.  The       *)
(* caption is named by what the texts hold under the caption key.          *)
(***************************************************************************)
\* the calls: the source, whether a caption key is given, the caption text
\* of the key in texts, and whether ReportLab could be imported
ImageInputs ==
  [image_data_input :
     {[type |-> "None", content |-> "none"]}
     \cup [type : {"str"},
           content : {"empty", "null_word", "undecodable", "not_an_image",
                      "png", "data_url_png"}]
     \cup [type : {"bytes"}, content : {"empty", "not_an_image", "png"}],
   caption_text_key : BOOLEAN,
   caption_text : {"absent", "empty", "plain", "starts_with_key",
                   "text_missing_suffix", "malformed_markup"},
   reportlab_available : BOOLEAN]

\* lines 202-207: the bytes handed to the image reader, "none" for None
img_data_bytes(image_data_input) ==
  IF image_data_input.type = "str"
     /\ image_data_input.content \notin {"empty", "null_word"}
  THEN CASE image_data_input.content = "undecodable" -> "none"
         [] image_data_input.content = "data_url_png" -> "png"
         [] OTHER -> image_data_input.content
  ELSE IF image_data_input.type = "bytes" THEN image_data_input.content
  ELSE "none"

\* lines 227-230 and 232-234: the placeholder paragraph, for a caption key
\* whose text is not empty and does not begin with the key; Paragraph raises
\* on malformed markup
caption_fallback(caption_text_key, caption_text) ==
  IF caption_text_key /\ caption_text \notin {"absent", "empty", "starts_with_key"}
  THEN [flowables |-> IF caption_text = "malformed_markup" THEN <<>>
                      ELSE <<[kind |-> "Paragraph", text |-> "image_not_available"]>>,
        raised |-> caption_text = "malformed_markup"]
  ELSE [flowables |-> <<>>, raised |-> FALSE]

\* _get_image_flowable: the flowables returned, or the exception that left it
get_image_flowable(image_data_input, caption_text_key, caption_text, reportlab_available) ==
  LET bytes == img_data_bytes(image_data_input)
      img == <<[kind |-> "Image", text |-> ""]>>
      caption_shown == caption_text_key
                       /\ caption_text \notin {"absent", "empty", "starts_with_key",
                                               "text_missing_suffix"}
      fallback == caption_fallback(caption_text_key, caption_text)
  IN  IF ~reportlab_available THEN [flowables |-> <<>>, raised |-> FALSE]
      ELSE IF bytes \notin {"none", "empty"}
      THEN IF bytes = "png"
           THEN IF ~caption_shown THEN [flowables |-> img, raised |-> FALSE]
                ELSE IF caption_text # "malformed_markup"
                THEN [flowables |->
                        img \o <<[kind |-> "Spacer", text |-> ""],
                                 [kind |-> "Paragraph", text |-> "caption"]>>,
                      raised |-> FALSE]
                ELSE [flowables |-> img \o <<[kind |-> "Spacer", text |-> ""]>>
                                    \o fallback.flowables,
                      raised |-> fallback.raised]
           ELSE fallback
      ELSE fallback

\* a call of _get_image_flowable
GetImageFlowable(inputs) ==
  /\ called = "none"
  /\ \E call \in inputs :
       /\ args' = call
       /\ returned' = get_image_flowable(call.image_data_input,
                                         call.caption_text_key, call.caption_text,
                                         call.reportlab_available)
  /\ called' = "_get_image_flowable"
  /\ UNCHANGED <<stored, avars, pvars, uvars, nvars, cvars, zvars>>

(***************************************************************************)
(* _replace_placeholders (lines 299-330).  A text is a sequence of whole   *)
(* bracketed tokens, blanks and token-free words.                          *)
(***************************************************************************)
MaxTemplateLen == 2  \* tokens and words of a text template

\* datetime.now().strftime('%d.%m.%Y') of line 302
now_date_str == <<"05.11.2026">>

\* the templates, customers, company, texts and analysis results of the
\* calls; a name may itself hold a token
PlaceholderInputs ==
  [text_template :
     SeqsUpTo({"Angebot", "[Unbekannt]", "[KundenNachname]", "[KundenVorname]",
               "[Datum]", "[Ihr Name/Firmenname]", "[AnlagenleistungkWp]"},
              MaxTemplateLen),
   customer_data :
     [salutation : {Str(<<"Frau">>)}, title : {NoKey},
      first_name : {Str(<<"Anna">>), Str(<<"[KundenNachname]">>)},
      last_name : {Str(<<"Muster">>), Str(<<"[Datum]">>),
                   Str(<<"[KundenVorname]">>)},
      company_name : {NoKey}, address : {Str(<<"Hauptstr.">>)},
      house_number : {Str(<<"1">>)}, zip_code : {NoKey},
      city : {Str(<<"Ulm">>)}],
   company_info : [name : {NoKey, Str(<<"[Angebotsnummer]">>)}],
   offer_number : {<<"AN2025-1001">>},
   texts_dict : {{}, {"value_not_calculated_short"}},
   analysis_results_for_placeholder :
     [type : {"None"}, anlage_kwp : {Kpi("None", 0, <<>>)}]
     \cup [type : {"dict"},
           anlage_kwp : {Kpi("None", 0, <<>>), Kpi("float", 100, <<>>)}]
     \cup [type : {"empty_dict"}, anlage_kwp : {Kpi("None", 0, <<>>)}]]

\* lines 306-326: the tokens and their values in the order of insertion
ersatz_dict(customer_data, company_info, offer_number, texts_dict, analysis_results_for_placeholder) ==
  LET str_get(key) == dict_get(customer_data, key, Str(<<>>)).chars
      kpi(value, unit) ==
        IF value.type # "None"
        THEN format_kpi_value(value, unit,
                              get_text(texts_dict, "value_not_calculated_short",
                                       <<"k", ".", "A", ".">>), 2)
        ELSE get_text(texts_dict, "value_not_calculated_short", <<"k.B.">>)
  IN  << <<"[VollständigeAnrede]",
           generate_complete_salutation_line(customer_data, texts_dict)>>,
         <<"[Ihr Name/Firmenname]",
           dict_get(company_info, "name",
                    Str(get_text(texts_dict, "company_name_default_placeholder_pdf",
                                 <<"Ihr", " ", "Solarexperte">>))).chars>>,
         <<"[Angebotsnummer]", offer_number>>,
         <<"[Datum]", now_date_str>>,
         <<"[KundenNachname]", str_get("last_name")>>,
         <<"[KundenVorname]", str_get("first_name")>>,
         <<"[KundenAnredeFormell]", str_get("salutation")>>,
         <<"[KundenTitel]", str_get("title")>>,
         <<"[KundenStrasseNr]",
           strip(str_get("address") \o <<" ">> \o str_get("house_number"))>>,
         <<"[KundenPLZOrt]",
           strip(str_get("zip_code") \o <<" ">> \o str_get("city"))>>,
         <<"[KundenFirmenname]", str_get("company_name")>> >>
      \o (IF analysis_results_for_placeholder.type = "dict"
          THEN << <<"[AnlagenleistungkWp]",
                    kpi(analysis_results_for_placeholder.anlage_kwp,
                        <<"k", "W", "p">>)>>,
                  <<"[GesamtinvestitionBrutto]", kpi(Kpi("None", 0, <<>>), <<"€">>)>>,
                  <<"[FinanziellerVorteilJahr1]", kpi(Kpi("None", 0, <<>>), <<"€">>)>> >>
          ELSE <<>>)

RECURSIVE replace(_, _, _)
\* str.replace(placeholder, value_repl): every occurrence, left to right
replace(processed_text, placeholder, value_repl) ==
  IF processed_text = <<>> THEN <<>>
  ELSE (IF Head(processed_text) = placeholder THEN value_repl
        ELSE <<Head(processed_text)>>)
       \o replace(Tail(processed_text), placeholder, value_repl)

RECURSIVE replace_placeholders(_, _)
\* lines 328-330: one replace per token, each on the result of the one before
replace_placeholders(processed_text, ersatz) ==
  IF ersatz = <<>> THEN processed_text
  ELSE replace_placeholders(replace(processed_text, ersatz[1][1], ersatz[1][2]),
                            Tail(ersatz))

\* a call of _replace_placeholders
ReplacePlaceholders(inputs) ==
  /\ called = "none"
  /\ \E call \in inputs :
       /\ args' = call
       /\ returned' =
            replace_placeholders(
              call.text_template,
              ersatz_dict(call.customer_data, call.company_info, call.offer_number,
                          call.texts_dict, call.analysis_results_for_placeholder))
  /\ called' = "_replace_placeholders"
  /\ UNCHANGED <<stored, avars, pvars, uvars, nvars, cvars, zvars>>

(***************************************************************************)
(* generate_offer_pdf called time after time by the PDF page, against the  *)
(* same settings store.                                                    *)
(***************************************************************************)
MaxCalls == 2  \* calls of generate_offer_pdf, one after the other

\* no call has ended and none is under way
NoEarlierCall ==
  /\ stored_at_call = NoValue
  /\ ended_calls = <<>>

\* section selections of such a call
FewSelections == {<<>>, <<"CostDetails">>}

(***************************************************************************)
(* render_pdf_ui (pdf_ui.py): the script runs of one session, one after    *)
(* the other.                                                              *)
(***************************************************************************)
MaxSubmits == 3  \* submits of the generation form

\* a session entry: absent, None, or the bytes of generation n
SessionEntry(kind, n) == [kind |-> kind, n |-> n]

\* what _generate_offer_pdf_safe does: it returns bytes, returns None or raises
GeneratorOutcomes == {"bytes", "None", "raise"}

\* a session that has not opened the PDF page
NoSession ==
  /\ upc = "idle"
  /\ rerun = FALSE
  /\ pdf_generating_lock_v1 = "absent"
  /\ generated_pdf_bytes_for_download_v1 = SessionEntry("absent", 0)
  /\ submit_button_disabled = "none"
  /\ submitted_generate_pdf = FALSE
  /\ submits = 0
  /\ lock_read = <<>>
  /\ handed = <<>>

\* an entry that stays in the session when it is read
session_get(entry) == entry

\* line 293: st.session_state.pop removes the entry
session_pop(entry) == SessionEntry("absent", 0)

\* lines 66-79: a script run starts, by a rerun or by a user event, which is
\* a submit only if the button was drawn enabled; the lock is initialised,
\* and the run ends at line 79 when the project data are not enough
RunScript(max_submits) ==
  /\ upc = "idle"
  /\ \E submitted, minimal_data_ok \in BOOLEAN :
       /\ submitted => (/\ ~rerun
                        /\ submit_button_disabled = "False"
                        /\ submits < max_submits)
       /\ submits' = IF submitted THEN submits + 1 ELSE submits
       /\ IF minimal_data_ok
          THEN /\ submitted_generate_pdf' = submitted
               /\ upc' = "form"
               /\ UNCHANGED submit_button_disabled
          ELSE /\ submitted_generate_pdf' = FALSE
               /\ upc' = "idle"
               /\ submit_button_disabled' = "none"
  /\ pdf_generating_lock_v1' =
       IF pdf_generating_lock_v1 = "absent" THEN "False" ELSE pdf_generating_lock_v1
  /\ rerun' = FALSE
  /\ UNCHANGED <<stored, avars, pvars, cvars, zvars, hvars, nvars,
                 generated_pdf_bytes_for_download_v1, lock_read, handed>>

\* lines 125-259: the form is drawn, its button disabled by the lock
RenderForm ==
  /\ upc = "form"
  /\ submit_button_disabled' = pdf_generating_lock_v1
  /\ upc' = "check"
  /\ UNCHANGED <<stored, avars, pvars, cvars, zvars, hvars, nvars, rerun,
                 pdf_generating_lock_v1, generated_pdf_bytes_for_download_v1,
                 submitted_generate_pdf, submits, lock_read, handed>>

\* lines 262-263: a submit with the lock free takes the lock
CheckSubmit ==
  /\ upc = "check"
  /\ lock_read' = IF submitted_generate_pdf
                  THEN Append(lock_read, pdf_generating_lock_v1)
                  ELSE lock_read
  /\ IF submitted_generate_pdf /\ pdf_generating_lock_v1 # "True"
     THEN /\ pdf_generating_lock_v1' = "True"
          /\ upc' = "generating"
     ELSE /\ upc' = "download"
          /\ UNCHANGED pdf_generating_lock_v1
  /\ UNCHANGED <<stored, avars, pvars, cvars, zvars, hvars, nvars, rerun,
                 generated_pdf_bytes_for_download_v1, submit_button_disabled,
                 submitted_generate_pdf, submits, handed>>

\* lines 265-287: the generator is called; its bytes or None are stored, and
\* None after an exception
Generate ==
  /\ upc = "generating"
  /\ \E outcome \in GeneratorOutcomes :
       generated_pdf_bytes_for_download_v1' =
         IF outcome = "bytes" THEN SessionEntry("bytes", Len(lock_read))
         ELSE SessionEntry("None", 0)
  /\ upc' = "finally"
  /\ UNCHANGED <<stored, avars, pvars, cvars, zvars, hvars, nvars, rerun,
                 pdf_generating_lock_v1, submit_button_disabled,
                 submitted_generate_pdf, submits, lock_read, handed>>

\* lines 288-290: the lock is released and st.rerun() ends the run
Finally ==
  /\ upc = "finally"
  /\ pdf_generating_lock_v1' = "False"
  /\ rerun' = TRUE
  /\ upc' = "idle"
  /\ UNCHANGED <<stored, avars, pvars, cvars, zvars, hvars, nvars,
                 generated_pdf_bytes_for_download_v1, submit_button_disabled,
                 submitted_generate_pdf, submits, lock_read, handed>>

\* lines 292-308: the entry is taken out of the session, and bytes are given
\* to the download button
Download ==
  /\ upc = "download"
  /\ generated_pdf_bytes_for_download_v1' =
       session_pop(generated_pdf_bytes_for_download_v1)
  /\ handed' = IF generated_pdf_bytes_for_download_v1.kind = "bytes"
               THEN Append(handed, generated_pdf_bytes_for_download_v1.n)
               ELSE handed
  /\ upc' = "idle"
  /\ UNCHANGED <<stored, avars, pvars, cvars, zvars, hvars, nvars, rerun,
                 pdf_generating_lock_v1, submit_button_disabled,
                 submitted_generate_pdf, submits, lock_read>>

\* no call of generate_offer_pdf has started
InitCall ==
  /\ pc = "idle"
  /\ sections_to_include = <<>>
  /\ project_is_dict = TRUE
  /\ include_all_documents_opt = FALSE
  /\ pv_details_pdf = EmptyDetails
  /\ offer_number_final = NoNumber
  /\ story = <<>>
  /\ sec_idx = 0
  /\ current_section_counter_pdf = 0
  /\ raised_sections = {}
  /\ faults = 0
  /\ main_offer_buffer = "none"
  /\ main_pdf_bytes = NoBytes
  /\ product_ids_for_datasheets = <<>>
  /\ paths_to_append = <<>>
  /\ datasheet_count = 0
  /\ pdf_writer = <<>>
  /\ path_idx = 0
  /\ unreadable = {}
  /\ final_buffer = "none"
  /\ result = NoBytes

\* company_document_ids_to_include of such a call: none, or the document
\* whose file is gone
PlainDocumentSelections == {{}, {3}}

\* project_details of a call whose merge is not under study
PlainDetails ==
  {EmptyDetails, [EmptyDetails EXCEPT !.ids["selected_module_id"] = 1]}

\* a first call (nothing stored) or a store holding an unparsable suffix
Init ==
  /\ NoSession
  /\ NoEarlierCall
  /\ NoHelperCall
  /\ NoCharts
  /\ NoBuild
  /\ stored \in {NoValue, Garbage}
  /\ pypdf_available = TRUE
  /\ InitCallers
  /\ InitCall

\* one call of generate_offer_pdf from its entry to its return
Next ==
  \/ Call(Selections)
  \/ LoadDesignSettings
  \/ AllocOfferNumber
  \/ ConfigureDocument
  \/ BuildCover(MaxFaults)
  \/ BuildLetter(MaxFaults)
  \/ RenderSection(MaxFaults)
  \/ BuildDocument
  \/ MergeGate
  \/ CollectDatasheets(PlainDetails)
  \/ CollectCompanyDocs(PlainDocumentSelections)
  \/ ReadBase
  \/ AppendFile
  \/ WriteFinal

Spec == Init /\ [][Next]_vars

\* project_details of a call whose merge is under study
MergeDetails == PvDetails(MaxSelected)

\* a call that has built its offer from the default selection without a
\* fault and stands before line 851
InitMerge ==
  /\ NoSession
  /\ NoEarlierCall
  /\ NoHelperCall
  /\ NoCharts
  /\ NoBuild
  /\ stored = IntValue(DefaultSuffix + 1)
  /\ pypdf_available \in BOOLEAN
  /\ InitCallers
  /\ pc = "merge"
  /\ sections_to_include = DefaultSelection
  /\ project_is_dict \in BOOLEAN
  /\ include_all_documents_opt = FALSE
  /\ pv_details_pdf = EmptyDetails
  /\ offer_number_final = SeqNumber(DefaultSuffix + 1)
  /\ story = <<>>
  /\ sec_idx = Len(SectionKeys) + 1
  /\ current_section_counter_pdf = Len(SectionKeys) + 1
  /\ raised_sections = {}
  /\ faults = 0
  /\ main_offer_buffer = "closed"
  /\ main_pdf_bytes = BaseDocument(2 + MaxSectionPages)
  /\ product_ids_for_datasheets = <<>>
  /\ paths_to_append = <<>>
  /\ datasheet_count = 0
  /\ pdf_writer = <<>>
  /\ path_idx = 0
  /\ unreadable = {}
  /\ final_buffer = "none"
  /\ result = NoBytes

\* the appendix merge of such a call
NextMerge ==
  \/ MergeGate
  \/ CollectDatasheets(MergeDetails)
  \/ CollectCompanyDocs(DocumentSelections)
  \/ ReadBase
  \/ AppendFile
  \/ WriteFinal

SpecMerge == InitMerge /\ [][NextMerge]_vars

InitAlloc ==
  /\ NoSession
  /\ NoEarlierCall
  /\ NoHelperCall
  /\ NoCharts
  /\ NoBuild
  /\ stored \in {NoValue, IntValue(DefaultSuffix), Garbage}
  /\ pypdf_available = TRUE
  /\ InitCallers
  /\ InitCall

\* non-overlapping allocator calls
NextSeq == \E c \in Callers : NumStartSeq(c) \/ NumLoad(c) \/ NumSave(c)

SpecSeq == InitAlloc /\ [][NextSeq]_vars

\* allocator calls that interleave their load and save steps
NextRace == \E c \in Callers : NumStart(c) \/ NumLoad(c) \/ NumSave(c)

SpecRace == InitAlloc /\ [][NextRace]_vars

\* generate_offer_pdf has created the document and stands at line 844
InitCanvas ==
  /\ NoSession
  /\ NoEarlierCall
  /\ NoHelperCall
  /\ NoCharts
  /\ stored = NoValue
  /\ pypdf_available = TRUE
  /\ InitCallers
  /\ InitCall
  /\ cpc = "flow"
  /\ include_company_logo_opt \in BOOLEAN
  /\ company_logo_base64 \in LogoValues
  /\ pdf_footer_text \in {"", "Musterfirma GmbH"}
  /\ canv = NewCanvas
  /\ code_lists = [l \in 1 .. (MaxPages + 2) |-> <<>>]
  /\ saved_page_states = <<>>
  /\ doc_pages = <<>>
  /\ state_idx = 0
  /\ flowed_pages = 0
  /\ markers_drawn = 0
  /\ events = <<>>

\* doc.build: the flow of the story, then the save of the canvas
NextCanvas ==
  \/ DrawFlowable
  \/ DrawMarker(ChapterTitles)
  \/ EndPage
  \/ Save
  \/ DecoratePage
  \/ SuperSave

SpecCanvas == InitCanvas /\ [][NextCanvas]_vars

\* the Visualizations branch has built its catalog and stands at line 800
InitCharts ==
  /\ NoSession
  /\ NoEarlierCall
  /\ NoHelperCall
  /\ stored = NoValue
  /\ pypdf_available = TRUE
  /\ InitCallers
  /\ InitCall
  /\ NoBuild
  /\ vpc = "charts"
  /\ selected_charts_for_pdf_opt \in ChartSelections
  /\ current_analysis_results_pdf \in ChartResults
  /\ chart_idx = 0
  /\ charts_added_count = 0
  /\ chart_story = <<>>

\* the chart loop and the closing note
NextCharts == RenderChart \/ CloseCharts

SpecCharts == InitCharts /\ [][NextCharts]_vars

\* a renderer is about to call one of its helpers
InitHelpers ==
  /\ NoSession
  /\ NoEarlierCall
  /\ stored = NoValue
  /\ pypdf_available = TRUE
  /\ InitCallers
  /\ InitCall
  /\ NoBuild
  /\ NoCharts
  /\ NoHelperCall

\* one call of a helper
NextHelpers ==
  \/ PrepareCostTable(CostInputs)
  \/ PrepareSimulationTable(SimInputs)
  \/ FormatKpiValue(KpiCalls)
  \/ FormatAgain(KpiCalls)
  \/ GenerateSalutation(SalutationInputs)
  \/ GetImageFlowable(ImageInputs)
  \/ ReplacePlaceholders(PlaceholderInputs)

SpecHelpers == InitHelpers /\ [][NextHelpers]_vars

\* pdf_ui.py line 269: the page calls generate_offer_pdf again after the
\* previous call has returned or raised
NextCall(max_calls) ==
  /\ pc \in {"returned", "raised"}
  /\ Len(ended_calls) + 1 < max_calls
  /\ ended_calls' = Append(ended_calls, [offer_number |-> offer_number_final,
                                         stored_before |-> stored_at_call,
                                         result |-> result])
  /\ stored_at_call' = stored
  /\ pc' = "idle"
  /\ sections_to_include' = <<>>
  /\ project_is_dict' = TRUE
  /\ offer_number_final' = NoNumber
  /\ story' = <<>>
  /\ sec_idx' = 0
  /\ current_section_counter_pdf' = 0
  /\ raised_sections' = {}
  /\ faults' = 0
  /\ main_offer_buffer' = "none"
  /\ main_pdf_bytes' = NoBytes
  /\ result' = NoBytes
  /\ UNCHANGED <<stored, avars, cvars, zvars, hvars, uvars, pypdf_available, mergevars>>

\* a first call against an empty store, a stored suffix or an unparsable one;
\* pypdf is not installed, so that a built offer is returned as it is
InitCalls ==
  /\ NoSession
  /\ NoHelperCall
  /\ NoCharts
  /\ NoBuild
  /\ stored \in {NoValue, IntValue(DefaultSuffix), Garbage}
  /\ stored_at_call = stored
  /\ ended_calls = <<>>
  /\ pypdf_available = FALSE
  /\ InitCallers
  /\ InitCall

\* the calls, each from its entry to its return
NextCalls ==
  \/ Call(FewSelections)
  \/ LoadDesignSettings
  \/ AllocOfferNumber
  \/ ConfigureDocument
  \/ BuildCover(0)
  \/ BuildLetter(0)
  \/ RenderSection(0)
  \/ BuildDocument
  \/ MergeGate
  \/ NextCall(MaxCalls)

SpecCalls == InitCalls /\ [][NextCalls]_vars

\* a session opens the PDF page
InitUi ==
  /\ NoHelperCall
  /\ NoCharts
  /\ NoBuild
  /\ NoEarlierCall
  /\ NoSession
  /\ stored = NoValue
  /\ pypdf_available = TRUE
  /\ InitCallers
  /\ InitCall

\* the script runs of the session
NextUi ==
  \/ RunScript(MaxSubmits)
  \/ RenderForm
  \/ CheckSubmit
  \/ Generate
  \/ Finally
  \/ Download

SpecUi == InitUi /\ [][NextUi]_vars

(***************************************************************************)
(* Offer numbers.                                                          *)
(***************************************************************************)
\* two callers hold the same sequential offer number
DuplicateIssued ==
  \E a, b \in Callers :
    a # b /\ rnum[a].kind = "seq" /\ rnum[b].kind = "seq" /\ rnum[a].suffix = rnum[b].suffix

\* every caller has returned a sequential number that its save persisted
AllReturnedAndSaved ==
  \A c \in Callers : rpc[c] = "done" /\ rnum[c].kind = "seq" /\ rsaved[c]

\* C1: in a sequence of non-overlapping calls against one SettingsStore, the
\* suffix a call returns is strictly greater than the suffix of every call
\* that returned before it started.
C1_SuffixStrictlyIncreases ==
  \A p \in rbefore :
    (rnum[p[1]].kind = "seq" /\ rnum[p[2]].kind = "seq")
      => rnum[p[2]].suffix > rnum[p[1]].suffix

\* C2: when calls interleave their load and save steps, duplicate offer
\* numbers are issued: once every call has returned a number that was
\* persisted, two calls hold the same suffix exactly when some call loaded
\* while another was between its load and its save.
C2_RaceIssuesDuplicates ==
  AllReturnedAndSaved => (raced <=> DuplicateIssued)

\* C2 witness: two interleaved calls have both returned the same suffix,
\* every save having persisted.
C2_Witness ==
  AllReturnedAndSaved /\ raced /\ DuplicateIssued

(***************************************************************************)
(* The story.                                                              *)
(***************************************************************************)
IsHeading(f) == f.kind = "SectionTitle"

\* the numbered headings of the story, in story order
Headings == SelectSeq(story, IsHeading)

\* the loop over the section definitions has ended, doc.build has not run
LoopDone == pc = "sections" /\ sec_idx > Len(SectionKeys)

\* position of a block in the fixed layout: cover, letter, then the sections
Rank(key) ==
  IF key = CoverKey THEN 0
  ELSE IF key = LetterKey THEN 1
  ELSE 1 + CHOOSE i \in DOMAIN SectionKeys : SectionKeys[i] = key

IsBlock(f) == f # PageBreak

\* the story without its page breaks
Blocks == SelectSeq(story, IsBlock)

InStory(f) == \E i \in DOMAIN story : story[i] = f

\* the selected identifiers that name a section
SelectedSections == KnownSections \cap active_sections_set_pdf(sections_to_include)

\* C3: whatever list of identifiers is selected, each heading in the story
\* stands later in the fixed section order than the heading before it (so
\* the order is kept and no section comes twice), the i-th heading
\* carries the number i, and once the loop has ended the headings are those
\* of exactly the selected known sections.
C3_SectionsInFixedOrderNumbered ==
  /\ \A i \in DOMAIN Headings : Headings[i].num = i
  /\ \A i \in 1..(Len(Headings) - 1) :
       Rank(Headings[i].sec) < Rank(Headings[i + 1].sec)
  /\ LoopDone => {Headings[i].sec : i \in DOMAIN Headings} = SelectedSections

\* C3 witness: a selection given out of order, with a duplicate, that omits
\* sections; the two selected sections come out once each in the fixed
\* order, numbered 1 and 2.
C3_Witness ==
  /\ LoopDone
  /\ sections_to_include = <<"FutureAspects", "CostDetails", "FutureAspects">>
  /\ Headings = <<Heading("CostDetails", 1), Heading("FutureAspects", 2)>>

BuildRaised == main_offer_buffer = "closed" /\ main_pdf_bytes = NoBytes

\* C5: if doc.build raises, the call returns the plain-text offer, for
\* every input of the normal path including a project_data that is no dict.
C5_BuildFailureYieldsPlainText ==
  BuildRaised => (pc = "returned" /\ result = PlainTextOffer)

\* C6: no exception leaves generate_offer_pdf when a store call, a lookup,
\* a section, the build or an appendix file fails.
C6_NeverRaises == pc # "raised"

(***************************************************************************)
(* The appendix merge.                                                     *)
(***************************************************************************)
RECURSIVE AllPages(_, _)
\* every page of every file of paths, from the i-th on, in order
AllPages(paths, i) ==
  IF i > Len(paths) THEN <<>> ELSE file_pages(paths[i]) \o AllPages(paths, i + 1)

IsDatasheetPath(path) ==
  \E id \in ProductIds : ProductDb[id].datasheet_link_db_path = path

\* C7: a call that returns with include_all_documents false, or without
\* the merge capability, or with no appendix path collected, returns the
\* bytes of the built offer themselves.
C7_NoMergeReturnsBaseUnchanged ==
  (/\ pc = "returned"
   /\ ~BuildRaised
   /\ \/ ~include_all_documents_opt
      \/ ~pypdf_available
      \/ paths_to_append = <<>>)
    => (result = main_pdf_bytes /\ result.origin = "reportlab")

\* C7 witness: the merge was wanted and possible but no path was
\* collected: the offer is returned as built.
C7_Witness ==
  /\ pc = "returned"
  /\ include_all_documents_opt
  /\ pypdf_available
  /\ datasheet_count = 0
  /\ paths_to_append = <<>>
  /\ result = main_pdf_bytes
  /\ result.origin = "reportlab"

\* C8: when the merge has written its output and every collected file was
\* readable, the output holds the pages of the offer in their order and
\* then all pages of every collected file in collection order, the
\* datasheets standing before the company documents.
C8_MergedPagesInOrder ==
  (pc = "returned" /\ result.origin = "pypdf" /\ unreadable = {}) =>
    /\ result.pages = main_pdf_bytes.pages \o AllPages(paths_to_append, 1)
    /\ \A i \in DOMAIN paths_to_append :
         IsDatasheetPath(paths_to_append[i]) <=> i <= datasheet_count

\* C8 witness: two datasheets and two company documents were merged.
C8_Witness ==
  /\ pc = "returned"
  /\ result.origin = "pypdf"
  /\ unreadable = {}
  /\ datasheet_count = 2
  /\ Len(paths_to_append) = 4
  /\ Len(result.pages) = Len(main_pdf_bytes.pages) + 6

\* C9: an appendix file whose append raised contributes no page to the
\* merged output.
C9_FailedAppendixContributesNoPages ==
  (pc = "returned" /\ result.origin = "pypdf") =>
    \A i \in unreadable :
      \A k \in DOMAIN result.pages : result.pages[k].doc # paths_to_append[i]

\* the product ids the selection names: module and inverter, storage if
\* include_storage, the optional slots if include_additional_components
WantedIds(pv) ==
  ({pv.ids["selected_module_id"], pv.ids["selected_inverter_id"]}
   \cup (IF pv.include_storage THEN {pv.ids["selected_storage_id"]} ELSE {})
   \cup (IF pv.include_additional_components
         THEN {pv.ids[OptionalSlots[i]] : i \in DOMAIN OptionalSlots} ELSE {}))
  \ {NoId}

\* those of them with a recorded datasheet whose file exists
WithDatasheet(pv) ==
  {id \in WantedIds(pv) :
     /\ ProductDb[id].found
     /\ ProductDb[id].datasheet_link_db_path # ""
     /\ ProductDb[id].datasheet_link_db_path \in ExistingFiles}

\* C10: once the datasheets are collected, the collected paths are exactly
\* the datasheets of the wanted products that have one on disk, each once.
C10_DatasheetPathsCollected ==
  pc = "documents" =>
    /\ Range(paths_to_append) =
         {ProductDb[id].datasheet_link_db_path : id \in WithDatasheet(pv_details_pdf)}
    /\ Len(paths_to_append) = Cardinality(WithDatasheet(pv_details_pdf))

\* C10 witness: product 1 is module and inverter at once; its datasheet is
\* collected once.
C10_Witness ==
  /\ pc = "documents"
  /\ pv_details_pdf.ids["selected_module_id"] = 1
  /\ pv_details_pdf.ids["selected_inverter_id"] = 1
  /\ paths_to_append = <<"ds1.pdf">>

(***************************************************************************)
(* Page decoration.                                                        *)
(***************************************************************************)
IsDecorate(e) == e.ev = "decorate"

\* the decorator invocations so far, in order
Decorates == SelectSeq(events, IsDecorate)

\* the operation list that the snapshot of page p refers to
PageCode(p) == code_lists[saved_page_states[p].code]

DecoratorOps ==
  {"saveState", "drawImage", "ChapterHeader", "footer", "company_footer",
   "restoreState"}

\* what the decorator has drawn into the operation list of page p
Drawn(p) == {PageCode(p)[i].op : i \in DOMAIN PageCode(p)} \cap DecoratorOps

\* how often operation name occurs in the operation list of page p
Count(p, name) ==
  Cardinality({i \in DOMAIN PageCode(p) : PageCode(p)[i].op = name})

\* C11: the decorator is invoked once per flowed page, for the pages 1..N in
\* increasing order, and no page is emitted (showPage) after the first
\* decorator invocation.
C11_DecoratedOncePerPageAfterFlow ==
  /\ \A i, j \in DOMAIN events :
       (i < j /\ events[i].ev = "decorate") => events[j].ev # "showPage"
  /\ \A k \in DOMAIN Decorates : Decorates[k].page = k
  /\ cpc = "saved" => Len(Decorates) = flowed_pages

\* C12: the footer drawn for a page p > 1 reads page p of N, N being the
\* number of flowed pages.
C12_FooterShowsPageOfTotal ==
  \A p \in 2 .. state_idx :
    /\ Count(p, "footer") = 1
    /\ \A i \in DOMAIN PageCode(p) :
         PageCode(p)[i].op = "footer" =>
           PageCode(p)[i].cur = p /\ PageCode(p)[i].total = flowed_pages

\* the decorations of page p, given when the logo is drawn
DecorationsAsStated(p, logo_drawn) ==
  /\ p = 1 => Drawn(p) \subseteq {"saveState", "restoreState"}
  /\ p > 1 =>
       /\ "footer" \in Drawn(p)
       /\ "drawImage" \in Drawn(p) <=> logo_drawn
       /\ "ChapterHeader" \in Drawn(p) <=>
            saved_page_states[p].current_chapter_title_for_header # ""
       /\ "company_footer" \in Drawn(p) <=> pdf_footer_text # ""
  /\ Count(p, "saveState") = 1
  /\ Count(p, "restoreState") = 1

RECURSIVE LastMarker(_, _)
\* the title of the last chapter-title marker drawn on a page <= p, at or
\* before position i of that page's operation list; "" if there is none
LastMarker(p, i) ==
  IF p = 0 THEN ""
  ELSE IF i = 0 THEN LastMarker(p - 1, IF p = 1 THEN 0 ELSE Len(PageCode(p - 1)))
  ELSE IF PageCode(p)[i].op = "SetCurrentChapterTitle" THEN PageCode(p)[i].text
  ELSE LastMarker(p, i - 1)

\* C14: the chapter title drawn in the header of a page p > 1 is the title
\* of the last chapter-title marker drawn on any page <= p.
C14_HeaderShowsLastMarker ==
  \A p \in 2 .. state_idx :
    \A i \in DOMAIN PageCode(p) :
      PageCode(p)[i].op = "ChapterHeader" =>
        PageCode(p)[i].text = LastMarker(p, Len(PageCode(p)))

\* a page without a marker of its own shows the title that a marker set on
\* the page before, where an earlier marker had set another title
C14_Witness ==
  \E p \in 3 .. state_idx :
    /\ Count(p, "ChapterHeader") = 1
    /\ Count(p, "SetCurrentChapterTitle") = 0
    /\ Count(p - 1, "SetCurrentChapterTitle") = 2
    /\ Count(p - 1, "ChapterHeader") = 1
    /\ PageCode(p - 1)[1].op = "SetCurrentChapterTitle"
    /\ PageCode(p - 1)[1].text
         # saved_page_states[p].current_chapter_title_for_header

(***************************************************************************)
(* Visualizations.                                                         *)
(***************************************************************************)
HasChartKey(f) == f.kind \in {"ChartTitle", "Image", "LoadError"}

\* the title, image and load-error entries of the section, in story order
ChartEntries == SelectSeq(chart_story, HasChartKey)

\* position of a chart key in the catalog; 0 for a key it does not hold
CatalogPos(chart_key) ==
  IF \E i \in DOMAIN charts_config_for_pdf_generator :
       charts_config_for_pdf_generator[i] = chart_key
  THEN CHOOSE i \in DOMAIN charts_config_for_pdf_generator :
         charts_config_for_pdf_generator[i] = chart_key
  ELSE 0

\* C15: a chart is emitted only if its key is in the catalog, is among the
\* selected chart keys and has image bytes that are not None; the emitted
\* charts stand in catalog order whatever the order of the selection.
C15_ChartsSelectedPresentInCatalogOrder ==
  /\ \A i \in DOMAIN ChartEntries :
       /\ CatalogPos(ChartEntries[i].sec) > 0
       /\ ChartEntries[i].sec \in Range(selected_charts_for_pdf_opt)
       /\ current_analysis_results_pdf[ChartEntries[i].sec] # "None"
  /\ \A i \in 1 .. (Len(ChartEntries) - 1) :
       CatalogPos(ChartEntries[i].sec) <= CatalogPos(ChartEntries[i + 1].sec)

\* the last chart of the catalog was selected before the first, both were
\* rendered, and a selected chart without bytes and an unselected chart
\* with bytes were passed over
C15_Witness ==
  /\ vpc = "done"
  /\ selected_charts_for_pdf_opt =
       <<charts_config_for_pdf_generator[Len(charts_config_for_pdf_generator)],
         "unknown_chart_bytes", charts_config_for_pdf_generator[1]>>
  /\ current_analysis_results_pdf["unknown_chart_bytes"] = "png"
  /\ current_analysis_results_pdf[charts_config_for_pdf_generator[2]] = "png"
  /\ Len(SelectSeq(chart_story, IsImage)) = 2

IsNote(f) == f.kind \in {"NotRenderableNote", "NoneSelectedNote"}

\* the notes of the section
ChartNotes == SelectSeq(chart_story, IsNote)

\* C16: the section ends in exactly one of three outcomes: at least one
\* chart rendered and no note; charts selected, none rendered and the 'not
\* renderable' note; none selected and the 'none selected' note. The counter
\* of rendered charts equals the number of image blocks emitted.
C16_ExactlyOneOutcome ==
  /\ charts_added_count = Len(SelectSeq(chart_story, IsImage))
  /\ vpc = "done" =>
       LET rendered == charts_added_count >= 1 /\ ChartNotes = <<>>
           not_renderable ==
             /\ selected_charts_for_pdf_opt # <<>>
             /\ charts_added_count = 0
             /\ ChartNotes = <<Flowable("NotRenderableNote", "", 0)>>
           none_selected ==
             /\ selected_charts_for_pdf_opt = <<>>
             /\ ChartNotes = <<Flowable("NoneSelectedNote", "", 0)>>
       IN  /\ rendered \/ not_renderable \/ none_selected
           /\ ~(rendered /\ not_renderable)
           /\ ~(rendered /\ none_selected)
           /\ ~(not_renderable /\ none_selected)

\* charts were selected, one had bytes that are no image, none was rendered
C16_Witness ==
  /\ vpc = "done"
  /\ charts_added_count = 0
  /\ \E i \in DOMAIN chart_story : chart_story[i].kind = "LoadError"
  /\ ChartNotes = <<Flowable("NotRenderableNote", "", 0)>>

(***************************************************************************)
(* The cost table and the simulation table.                                *)
(***************************************************************************)
\* the keys the claim names as always shown
AlwaysShown ==
  {"total_investment_netto", "total_investment_brutto", "subtotal_netto",
   "vat_rate_percent", "base_matrix_price_netto", "one_time_bonus_eur"}

\* position of a result key in the cost-item list
ItemPos(result_key) ==
  CHOOSE i \in DOMAIN cost_items_ordered_pdf :
    cost_items_ordered_pdf[i][1] = result_key

\* C17: a cost item has a row iff its value is not None and (it is not zero
\* or its key is one of the always-show keys); it has at most one row and the
\* rows keep the order of the cost-item list.
C17_CostRowsShown ==
  called = "_prepare_cost_table_for_pdf" =>
    /\ \A k \in DOMAIN args :
         (\E i \in DOMAIN returned : returned[i].result_key = k)
           <=> (args[k] # "None" /\ (args[k] # "0.0" \/ k \in AlwaysShown))
    /\ \A i \in DOMAIN returned :
         /\ returned[i].result_key \in DOMAIN args
         /\ returned[i].value = args[returned[i].result_key]
    /\ \A i \in 1 .. (Len(returned) - 1) :
         ItemPos(returned[i].result_key) < ItemPos(returned[i + 1].result_key)

\* every item is 0.0 but one with an amount: subtotal_netto has its row, the
\* scaffolding cost has none
C17_Witness ==
  /\ called = "_prepare_cost_table_for_pdf"
  /\ args["subtotal_netto"] = "0.0"
  /\ args["cost_scaffolding_netto"] = "0.0"
  /\ args["cost_modules_aufpreis_netto"] = "1500.0"
  /\ \E i \in DOMAIN returned : returned[i].result_key = "subtotal_netto"
  /\ \A i \in DOMAIN returned : returned[i].result_key # "cost_scaffolding_netto"
  /\ Len(returned) = 7

\* C18: for a period Y >= 0 the simulation table is one header row, then
\* min(Y, 10) data rows, then one ellipsis row iff Y > 10, whatever the
\* lengths of the series.
C18_SimulationRowCount ==
  called = "_prepare_simulation_table_for_pdf" =>
    LET Y == args.simulation_period_years_effective
        shown == IF Y < 10 THEN Y ELSE 10
    IN  /\ Len(returned) = 1 + shown + (IF Y > 10 THEN 1 ELSE 0)
        /\ returned[1].kind = "header"
        /\ \A i \in 1 .. shown : returned[1 + i].kind = "data"
        /\ Y > 10 => returned[Len(returned)].kind = "ellipsis"

\* a period beyond ten years whose series are too short or no lists:
\* header, ten data rows and the ellipsis
C18_Witness ==
  /\ called = "_prepare_simulation_table_for_pdf"
  /\ args.simulation_period_years_effective = 12
  /\ args.annual_productions_sim = NotAList
  /\ Len(args.annual_benefits_sim) = 3
  /\ Len(returned) = 12
  /\ returned[12].kind = "ellipsis"

(***************************************************************************)
(* The value formatter.                                                    *)
(***************************************************************************)
\* C19: format_kpi_value(None, ...) yields the N/A string, and handing that
\* string to format_kpi_value again, with the same texts and any unit and
\* precision, yields the identical string.
C19_NaTextIdempotent ==
  /\ (called = "format_kpi_value" /\ args.value.first.type = "None")
       => returned = args.na_text
  /\ (called = "format_kpi_value again" /\ args.value.first.type = "None")
       => (args.value.now.chars = args.na_text /\ returned = args.na_text)

\* the N/A text "0", which float() would accept, came back unchanged from a
\* second call with a unit
C19_Witness ==
  /\ called = "format_kpi_value again"
  /\ args.value.first.type = "None"
  /\ args.na_text = <<"0">>
  /\ args.unit = <<"€">>
  /\ returned = <<"0">>

\* the digits of cs are decimal digits and make up the number v
DigitsOf(cs, v) ==
  /\ \A i \in DOMAIN cs : \E d \in DOMAIN Digits : Digits[d] = cs[i]
  /\ FixedDigits(v, Len(cs)) = cs
  /\ v < 10 ^ Len(cs)

\* cs is the German notation, with precision fractional digits, of a number
\* that is no further than half a unit of the last digit from n / 8
GermanNumber(cs, n, precision) ==
  LET unsigned == IF cs # <<>> /\ cs[1] = "-" THEN Tail(cs) ELSE cs
      int_len == IF precision = 0 THEN Len(unsigned)
                 ELSE Len(unsigned) - precision - 1
      int_part == SubSeq(unsigned, 1, int_len)
      frac_part == SubSeq(unsigned, int_len + 2, Len(unsigned))
      NotPoint(c) == c # "."
      int_digits == SelectSeq(int_part, NotPoint)
      size == IF n < 0 THEN 0 - n ELSE n
      scale == 10 ^ precision
  IN  /\ (cs # <<>> /\ cs[1] = "-") <=> n < 0
      /\ int_len >= 1
      /\ precision > 0 => unsigned[int_len + 1] = ","
      /\ Len(frac_part) = precision
      /\ \A i \in 1 .. int_len :
           (int_part[i] = ".") <=> ((int_len - i + 1) % 4 = 0)
      /\ int_part[1] # "."
      /\ \E up \in {0, 1}, f \in 0 .. (scale - 1) :
           /\ DigitsOf(int_digits, (size \div 8) + up)
           /\ DigitsOf(frac_part, f)
           /\ 8 * (up * scale + f) - (size % 8) * scale \in (0 - 4) .. 4

\* C20: a finite number with a unit other than 'Jahre' comes back with
\* exactly precision fractional digits, '.' between the thousands and ','
\* before the fraction, followed by a space and the unit; with an empty unit
\* nothing follows the number.
C20_GermanNumberAndUnit ==
  (/\ called = "format_kpi_value"
   /\ args.value.now.type = "float"
   /\ args.unit # <<"J", "a", "h", "r", "e">>)
    => IF args.unit = <<>>
       THEN GermanNumber(returned, args.value.now.n, args.precision)
       ELSE LET num_len == Len(returned) - Len(args.unit) - 1
            IN  /\ num_len >= 1
                /\ SubSeq(returned, num_len + 1, Len(returned)) = <<" ">> \o args.unit
                /\ GermanNumber(SubSeq(returned, 1, num_len), args.value.now.n,
                                args.precision)

\* 1234.5 with unit and precision 2 has become '1.234,50' and the unit
C20_Witness ==
  /\ called = "format_kpi_value"
  /\ args.value.now = Kpi("float", 9876, <<>>)
  /\ args.precision = 2
  /\ args.unit = <<"€">>
  /\ returned = <<"1", ".", "2", "3", "4", ",", "5", "0", " ", "€">>

\* C21: a finite number with the unit 'Jahre' comes back, whatever the
\* precision, as digits, a decimal comma, exactly one fractional digit and
\* ' Jahre'; 3.25 comes back as '3,3 Jahre'.
C21_JahreOneDigitGerman ==
  (/\ called = "format_kpi_value"
   /\ args.value.now.type = "float"
   /\ args.unit = <<"J", "a", "h", "r", "e">>)
    => LET num_len == Len(returned) - 6
           num == SubSeq(returned, 1, num_len)
           unsigned == IF num # <<>> /\ num[1] = "-" THEN Tail(num) ELSE num
       IN  /\ Len(unsigned) >= 3
           /\ SubSeq(returned, num_len + 1, Len(returned))
                = <<" ", "J", "a", "h", "r", "e">>
           /\ unsigned[Len(unsigned) - 1] = ","
           /\ \A i \in DOMAIN unsigned :
                i # Len(unsigned) - 1
                  => \E d \in DOMAIN Digits : Digits[d] = unsigned[i]
           /\ args.value.now.n = 26
                => returned = <<"3", ",", "3", " ", "J", "a", "h", "r", "e">>

\* the text of a field of the customer of the call; none if the key is absent
CustomerText(key) ==
  IF args.customer_data[key].type = "str" THEN args.customer_data[key].chars
  ELSE <<>>

\* the polite forms as the texts of the call give them
PoliteForm(form) ==
  CASE form = "male" ->
         get_text(args.texts, "salutation_male_polite", <<"Sehr", " ", "geehrte/r">>)
    [] form = "female" ->
         get_text(args.texts, "salutation_female_polite", <<"Sehr", " ", "geehrte/r">>)
    [] form = "generic" ->
         get_text(args.texts, "salutation_polite", <<"Sehr", " ", "geehrte/r">>)
    [] form = "family" ->
         get_text(args.texts, "salutation_family_polite",
                  <<"Sehr", " ", "geehrte", " ", "Familie">>)
    [] form = "company" ->
         get_text(args.texts, "salutation_company_polite",
                  <<"Sehr", " ", "geehrte", " ", "Damen", " ", "und", " ", "Herren",
                    " ", "der", " ", "Firma">>)
    [] form = "fallback" ->
         get_text(args.texts, "salutation_generic_fallback",
                  <<"Sehr", " ", "geehrte", " ", "Damen", " ", "und", " ", "Herren,">>)

\* a polite form, a blank, a name and the comma
Addressed(form, name) == PoliteForm(form) \o <<" ">> \o name \o <<",">>

\* C22 as stated: the salutations 'Herr', 'Frau', 'Familie' and 'Firma' as
\* written select the form; the full name is the non-empty parts of title,
\* first name and last name joined by single blanks; 'Herr' and 'Frau' give
\* their form and the full name, 'Familie' the family form and the last
\* name or else the company name, 'Firma' the company form and the company
\* name or else the last name, or the fallback without either, and any other
\* salutation the generic form and the full name, or the fallback without a
\* name part.
C22_SalutationAsStated ==
  called = "_generate_complete_salutation_line"
    => LET NotEmpty(p) == p # <<>>
           full_name ==
             join(<<" ">>, SelectSeq(<<CustomerText("title"),
                                       CustomerText("first_name"),
                                       CustomerText("last_name")>>, NotEmpty))
           salutation == CustomerText("salutation")
           last_or_company == IF CustomerText("last_name") # <<>>
                              THEN CustomerText("last_name")
                              ELSE CustomerText("company_name")
           company_or_last == IF CustomerText("company_name") # <<>>
                              THEN CustomerText("company_name")
                              ELSE CustomerText("last_name")
       IN  returned =
             CASE salutation = <<"Herr">> -> Addressed("male", full_name)
               [] salutation = <<"Frau">> -> Addressed("female", full_name)
               [] salutation = <<"Familie">> -> Addressed("family", last_or_company)
               [] salutation = <<"Firma">> ->
                    IF company_or_last # <<>>
                    THEN Addressed("company", company_or_last)
                    ELSE PoliteForm("fallback")
               [] OTHER ->
                    IF full_name # <<>> THEN Addressed("generic", full_name)
                    ELSE PoliteForm("fallback")

\* C22: the salutation selects the form whatever its case and surrounding
\* blanks; the full name is the non-blank parts of title, first name and
\* last name joined by single blanks; 'Herr', 'Frau' and any other
\* salutation give their form and the full name, or the generic fallback
\* when no name part is present; 'Familie' gives the family form and the
\* last name, or without a last name the company name, or without the
\* company_name key the default family name; 'Firma' gives the company form
\* and the company name or else the last name, or the generic fallback when
\* both are empty.
C22_SalutationLine ==
  called = "_generate_complete_salutation_line"
    => LET NotBlank(p) == \E i \in DOMAIN p : p[i] # " "
           full_name ==
             join(<<" ">>, SelectSeq(<<CustomerText("title"),
                                       CustomerText("first_name"),
                                       CustomerText("last_name")>>, NotBlank))
           salutation == strip(lower(CustomerText("salutation")))
           family_name ==
             IF NotBlank(CustomerText("last_name")) THEN CustomerText("last_name")
             ELSE IF args.customer_data.company_name.type = "str"
                  THEN CustomerText("company_name")
                  ELSE get_text(args.texts, "family_default_name_pdf", <<"Familie">>)
           company_or_last == IF CustomerText("company_name") # <<>>
                              THEN CustomerText("company_name")
                              ELSE CustomerText("last_name")
           form == CASE salutation = <<"herr">> -> "male"
                     [] salutation = <<"frau">> -> "female"
                     [] OTHER -> "generic"
       IN  returned =
             CASE salutation = <<"familie">> ->
                    Addressed("family", strip(family_name))
               [] salutation = <<"firma">> ->
                    IF company_or_last # <<>>
                    THEN Addressed("company", strip(company_or_last))
                    ELSE PoliteForm("fallback")
               [] OTHER ->
                    IF full_name # <<>> THEN Addressed(form, full_name)
                    ELSE PoliteForm("fallback")

\* 'Frau' Anna Muster has got the female form and 'Anna Muster,', and a
\* 'Herr' without any name part the generic fallback
C22_Witness ==
  /\ called = "_generate_complete_salutation_line"
  /\ args.texts = SalutationTextKeys
  /\ \/ /\ args.customer_data.salutation = Str(<<"Frau">>)
        /\ args.customer_data.title = NoKey
        /\ args.customer_data.first_name = Str(<<"Anna">>)
        /\ args.customer_data.last_name = Str(<<"Muster">>)
        /\ returned = <<"salutation_female_polite", " ", "Anna", " ", "Muster", ",">>
     \/ /\ args.customer_data.salutation = Str(<<"herr", " ">>)
        /\ args.customer_data.title = Str(<<>>)
        /\ args.customer_data.first_name = Str(<<" ">>)
        /\ args.customer_data.last_name = NoKey
        /\ returned = <<"salutation_generic_fallback">>

\* C23: the image embedder never raises; an undecodable source or one that
\* is no image, given with a caption key, yields exactly the placeholder
\* paragraph and no image; an empty source without a caption key yields no
\* flowable.
C23_ImageEmbedderDegrades ==
  called = "_get_image_flowable"
    => /\ ~returned.raised
       /\ (/\ args.caption_text_key
           /\ args.image_data_input.content \in {"undecodable", "not_an_image"})
            => returned.flowables
                 = <<[kind |-> "Paragraph", text |-> "image_not_available"]>>
       /\ (/\ ~args.caption_text_key
           /\ args.image_data_input.content \in {"none", "empty"})
            => returned.flowables = <<>>

\* the tokens of the call and their values
Ersatz ==
  ersatz_dict(args.customer_data, args.company_info, args.offer_number,
              args.texts_dict, args.analysis_results_for_placeholder)

\* the value of a token of the call; the token itself if it has none
ValueOf(token) ==
  IF \E i \in DOMAIN Ersatz : Ersatz[i][1] = token
  THEN Ersatz[CHOOSE i \in DOMAIN Ersatz : Ersatz[i][1] = token][2]
  ELSE <<token>>

RECURSIVE Substituted(_)
\* every token of the text replaced by its value, anything else verbatim
Substituted(text) ==
  IF text = <<>> THEN <<>> ELSE ValueOf(Head(text)) \o Substituted(Tail(text))

\* C24: the result is the template with every occurrence of a token of the
\* fixed set replaced by the token's value and with unknown tokens and other
\* text verbatim; the KPI tokens have a value only when analysis results are
\* supplied, and a missing KPI then has the 'not calculated' text.
C24_TokensReplacedRestVerbatim ==
  called = "_replace_placeholders"
    => /\ returned = Substituted(args.text_template)
       /\ (\E i \in DOMAIN Ersatz : Ersatz[i][1] = "[AnlagenleistungkWp]")
            => args.analysis_results_for_placeholder.type # "None"
       /\ (/\ args.analysis_results_for_placeholder.type = "dict"
           /\ args.analysis_results_for_placeholder.anlage_kwp.type = "None")
            => ValueOf("[AnlagenleistungkWp]")
                 = get_text(args.texts_dict, "value_not_calculated_short", <<"k.B.">>)

\* the tokens of the call with token i processed first
MovedToFront(i) ==
  <<Ersatz[i]>> \o SubSeq(Ersatz, 1, i - 1) \o SubSeq(Ersatz, i + 1, Len(Ersatz))

\* C28: a value inserted for a token is not expanded again: the result is
\* the one of replacing the tokens of the template only, and it is the same
\* when the tokens are processed in reverse order or with any one of them
\* processed first.
C28_InsertedValuesNotExpanded ==
  called = "_replace_placeholders"
    => /\ returned = Substituted(args.text_template)
       /\ returned = replace_placeholders(args.text_template, Reverse(Ersatz))
       /\ \A i \in DOMAIN Ersatz :
            returned = replace_placeholders(args.text_template, MovedToFront(i))

\* C25: data row i of the simulation table is labelled i and shows element
\* i - 1 of the production, benefit, maintenance and annual cash flow series,
\* or N/A where the series is no list or has fewer than i elements; the
\* cumulative column shows element i of a cumulative series of Y + 1
\* elements, and N/A in every row for a series of any other length.
C25_SimulationCells ==
  called = "_prepare_simulation_table_for_pdf" =>
    LET Y == args.simulation_period_years_effective
        shown == IF Y < 10 THEN Y ELSE 10
        series == <<args.annual_productions_sim, args.annual_benefits_sim,
                    args.annual_maintenance_costs_sim, args.annual_cash_flows_sim>>
        cumulative == args.cumulative_cash_flows_sim
    IN  \A i \in 1 .. shown :
          /\ returned[1 + i].year = i
          /\ Len(returned[1 + i].cells) = 5
          /\ \A k \in 1 .. 4 :
               returned[1 + i].cells[k]
                 = IF series[k] # NotAList /\ Len(series[k]) >= i
                   THEN 100 * k + (i - 1) ELSE NoElement
          /\ returned[1 + i].cells[5]
               = IF cumulative # NotAList /\ Len(cumulative) = Y + 1
                 THEN 500 + i ELSE NoElement

\* twelve years, a production series of three elements and a cumulative
\* series with its year 0: row 4 shows N/A for the production and element 4
\* of the cumulative series
C25_Witness ==
  /\ called = "_prepare_simulation_table_for_pdf"
  /\ args.simulation_period_years_effective = 12
  /\ Len(args.annual_productions_sim) = 3
  /\ args.annual_productions_sim # NotAList
  /\ Len(args.cumulative_cash_flows_sim) = 13
  /\ returned[4].cells[1] = 102
  /\ returned[5].cells[1] = NoElement
  /\ returned[5].cells[5] = 504

\* the call has returned or an exception has left it
Exited == pc \in {"returned", "raised"}

\* C26: when a call of generate_offer_pdf has ended, by a return or by an
\* exception, no byte buffer it created is still open: neither the buffer of
\* the offer nor the buffer of the merged output.
C26_BuffersClosedOnExit ==
  Exited => (main_offer_buffer # "open" /\ final_buffer # "open")

(***************************************************************************)
(* Offer numbers across calls.                                             *)
(***************************************************************************)
\* the call under way has passed line 547
Allocated == offer_number_final # NoNumber

\* the suffix the allocator of the call under way read
LoadedSuffix == ParseSuffix(load_admin_setting(stored_at_call, DefaultSuffix))

\* C27 as stated: every call that has passed the allocation has advanced the
\* stored suffix by exactly one, a plain-text fallback carries 'FALLBACK_NR',
\* and the call after one that was given a sequential number is given the
\* next suffix.
C27_EveryCallAdvancesSuffix ==
  /\ Allocated => stored = IntValue(LoadedSuffix + 1)
  /\ result.kind = "plaintext" => result.offer_number = "FALLBACK_NR"
  /\ (/\ Allocated
      /\ ended_calls # <<>>
      /\ ended_calls[Len(ended_calls)].offer_number.kind = "seq")
       => offer_number_final = SeqNumber(ended_calls[Len(ended_calls)].offer_number.suffix + 1)

\* C27: a call that has passed the allocation has left the stored suffix as
\* it was (the load or the save raised, the value could not be parsed, or
\* the save did not persist) or has advanced it by exactly one and been given
\* that suffix, already before the story is built and whether the call then
\* returns the PDF, returns the plain-text fallback or raises; the fallback
\* carries 'FALLBACK_NR'; and after a call that advanced the suffix to s, a
\* call that is given a sequential number is given s + 1.
C27_SavedAllocationAdvancesSuffix ==
  /\ Allocated
       => \/ stored = stored_at_call
          \/ /\ CanParseSuffix(load_admin_setting(stored_at_call, DefaultSuffix))
             /\ stored = IntValue(LoadedSuffix + 1)
             /\ offer_number_final = SeqNumber(LoadedSuffix + 1)
  /\ ~Allocated => stored = stored_at_call
  /\ result.kind = "plaintext"
       => (Allocated /\ result.offer_number = "FALLBACK_NR")
  /\ (/\ Allocated
      /\ ended_calls # <<>>
      /\ ended_calls[Len(ended_calls)].offer_number.kind = "seq"
      /\ stored_at_call = IntValue(ended_calls[Len(ended_calls)].offer_number.suffix)
      /\ offer_number_final.kind = "seq")
       => offer_number_final = SeqNumber(ended_calls[Len(ended_calls)].offer_number.suffix + 1)

\* the first call was given 1001 and ended in the plain-text fallback; the
\* second call has been given 1002 and stands before its story
C27_Witness ==
  /\ Len(ended_calls) = 1
  /\ ended_calls[1].result = PlainTextOffer
  /\ ended_calls[1].offer_number = SeqNumber(DefaultSuffix + 1)
  /\ pc = "options"
  /\ story = <<>>
  /\ offer_number_final = SeqNumber(DefaultSuffix + 2)
  /\ stored = IntValue(DefaultSuffix + 2)

(***************************************************************************)
(* The inputs of generate_offer_pdf.                                       *)
(***************************************************************************)
\* C29: after the call that renders the SimulationDetails section the
\* AnalysisResults mapping of the caller holds the keys it held before the
\* call, the period and the five series, and no other.
C29_AnalysisResultsUnchanged ==
  called = "_prepare_simulation_table_for_pdf"
    => DOMAIN args = {"simulation_period_years_effective", "annual_productions_sim",
                      "annual_benefits_sim", "annual_maintenance_costs_sim",
                      "annual_cash_flows_sim", "cumulative_cash_flows_sim"}

(***************************************************************************)
(* The generating lock of the PDF page.                                    *)
(***************************************************************************)
\* C30: every submitted run that reached line 262 read the lock as false,
\* so that it started a generation; the lock is true while the generator is
\* called and until the finally clause, and false at every other point of a
\* run and between runs, whatever the generator did; and no generated bytes
\* are given to the download button twice.
C30_LockReleasedBytesHandedOnce ==
  /\ \A i \in DOMAIN lock_read : lock_read[i] = "False"
  /\ upc \in {"generating", "finally"} => pdf_generating_lock_v1 = "True"
  /\ upc \notin {"generating", "finally"} => pdf_generating_lock_v1 # "True"
  /\ \A i, j \in DOMAIN handed : handed[i] = handed[j] => i = j

\* the first generation raised and the second returned bytes, which have
\* been given to the download button; the lock is free
C30_Witness ==
  /\ upc = "idle"
  /\ submits = 2
  /\ lock_read = <<"False", "False">>
  /\ handed = <<2>>
  /\ pdf_generating_lock_v1 = "False"
  /\ generated_pdf_bytes_for_download_v1 = SessionEntry("absent", 0)

====
